---- MODULE Spec2Model ----
(***************************************************************************)
(* taskreview: an interactive review console over a taskwarrior backend.   *)
(* The model follows the latest revision of the program: the console       *)
(* (src/unnamed/part_001) and the task model (src/unnamed/part_002).       *)
(*                                                                         *)
(* Strings whose characters the program inspects (tags, projects,          *)
(* descriptions) are sequences of one-character strings; strings that are  *)
(* only compared with literals (status, action names) are TLA+ strings.    *)
(* A timestamp string in the layout `stamp` is <<seconds>>, and the empty  *)
(* string is <<>>.                                                         *)
(***************************************************************************)
EXTENDS Integers, Sequences, FiniteSets, TLC

VARIABLES
    backend,    \* the task store behind `task export` / `task import`: a sequence of records
    now,        \* wall clock, in ticks (TicksPerSec ticks to the second)
    short,      \* *keys.Shortcuts: context -> (character -> value)
    pc,         \* where the single control loop of the process stands
    filter,     \* main's filter string, as its sequence of space-separated tokens
    tasks,      \* showAndReviewTasks' working set
    i,          \* showAndReviewTasks' index into tasks
    showAll,    \* global showAll
    sortBy,     \* global sortBy
    t,          \* the task doImport was called on
    move,       \* the step printInfo returns once the edit is over
    ret,        \* who called doImport: "review", "fix" or "shell"
    imports,    \* number of `task import` commands issued by this process
    exts,       \* number of writes made by other clients of the backend
    edit,       \* observation: the editing operation in progress, as it was called
    log         \* observation: what the last step saw and decided (a fetch, a sort,
                \* a step of doImport, the refresh)

vars == <<backend, now, short, pc, filter, tasks, i, showAll, sortBy, t, move, ret,
          imports, exts, edit, log>>

-----------------------------------------------------------------------------
(* Bounds of the model *)

\* writes the backend takes in one run: the imports of this process and the
\* writes of other clients together (each advances the clock by a second)
MaxWrites == 2
\* clock resolution below the second (time.Now has nanoseconds, stamps have seconds)
TicksPerSec == 2
\* tokens the shell lets the filter grow to
MaxFilter == 2

-----------------------------------------------------------------------------
(* Time: time.Time as ticks, stamps as <<seconds>> *)

Hour == 3600 * TicksPerSec

\* 24*time.Hour in isReviewed
ReviewWindow == 24 * Hour

\* time.Time.Format(stamp): the sub-second part is dropped
Format(tm) == <<tm \div TicksPerSec>>

\* time.Parse(stamp, s) succeeds on a well-formed stamp only
ParseOk(s) == Len(s) = 1 /\ s[1] \in Nat

\* time.Parse(stamp, s); the zero time.Time on error
Parse(s) == IF ParseOk(s) THEN s[1] * TicksPerSec ELSE 0

-----------------------------------------------------------------------------
(* Strings *)

RED == <<"r", "e", "d">>
GREEN == <<"g", "r", "e", "e", "n">>
BLUE == <<"b", "l", "u", "e">>

\* var kDisputed
kDisputed == <<"d", "i", "s", "p", "u", "t", "e", "d">>

\* flag rtag, default "r:"+$USER with USER=me
reviewTag == <<"r", ":", "m", "e">>

\* strings.HasPrefix(s, "@")
HasAtPrefix(s) == Len(s) > 0 /\ s[1] = "@"

Range(s) == {s[k] : k \in DOMAIN s}

\* strings.Trim(s, " \n")
RECURSIVE TrimLeft(_)
TrimLeft(s) == IF s # <<>> /\ Head(s) \in {" ", "\n"} THEN TrimLeft(Tail(s)) ELSE s
RECURSIVE TrimRight(_)
TrimRight(s) ==
    IF s # <<>> /\ s[Len(s)] \in {" ", "\n"} THEN TrimRight(SubSeq(s, 1, Len(s) - 1)) ELSE s
Trim(s) == TrimRight(TrimLeft(s))


\* strings.HasPrefix(s, p)
HasPrefix(s, p) == Len(s) >= Len(p) /\ SubSeq(s, 1, Len(p)) = p

\* strings.Split(s, " ")
RECURSIVE SplitFrom(_, _)
SplitFrom(s, cur) ==
    IF s = <<>> THEN <<cur>>
    ELSE IF Head(s) = " " THEN <<cur>> \o SplitFrom(Tail(s), <<>>)
    ELSE SplitFrom(Tail(s), Append(cur, Head(s)))
Split(s) == SplitFrom(s, <<>>)

\* strings.Contains, as the backend's description search uses it
Contains(s, w) == \E k \in 0..(Len(s) - Len(w)) : SubSeq(s, k + 1, k + Len(w)) = w

-----------------------------------------------------------------------------
(* part_002: the task model *)

IsColor(tag) == tag = GREEN \/ tag = BLUE \/ tag = RED

\* func (tk task) colorTag() string
colorTag(tk) ==
    LET hits == SelectSeq(tk.Tags, IsColor)
    IN  IF hits = <<>> THEN <<>> ELSE Head(hits)

\* func (tk task) userTag() string
userTag(tk) ==
    LET hits == SelectSeq(tk.Tags, HasAtPrefix)
    IN  IF hits = <<>> THEN <<>> ELSE Head(hits)

isReviewedOld(tk, nw) ==
    IF Len(tk.Completed) = 0
    THEN Len(tk.Reviewed) > 0 /\ ParseOk(tk.Reviewed) /\ nw - Parse(tk.Reviewed) <= ReviewWindow
    ELSE \E k \in DOMAIN tk.Tags : tk.Tags[k] = reviewTag

\* func (tk task) isReviewed() bool, with time.Now() passed as nw
isReviewed(tk, nw) ==
    IF Len(tk.Completed) = 0
    THEN Len(tk.Reviewed) > 0 /\ ParseOk(tk.Reviewed) /\ nw - Parse(tk.Reviewed) < ReviewWindow
    ELSE \E k \in DOMAIN tk.Tags : tk.Tags[k] = reviewTag

\* func (tk task) isDisputed() bool
isDisputed(tk) == \E k \in DOMAIN tk.Tags : tk.Tags[k] = kDisputed

(* The editing methods have value receivers: each works on a copy of the   *)
(* task and hands the copy to doImport.  An operator below gives what the  *)
(* method does up to that call: whether doImport is called, on which task, *)
(* the step the method returns, and w, the tags the method has written     *)
(* through t.Tags[:0] into the array that the copy shares with the entry   *)
(* of the working set it was made from.                                    *)
Edit(call, tk, mv) == [call |-> call, t |-> tk, move |-> mv, w |-> <<>>]

\* the tags an entry shows after w was written to the front of its array: the
\* entry keeps its length, and an element appended behind it is not seen
Overwritten(old, w) == [k \in DOMAIN old |-> IF k <= Len(w) THEN w[k] ELSE old[k]]

\* (*keys.Shortcuts).MapsTo(ch, label)
MapsTo(ch, label) ==
    IF ch \in DOMAIN short[label]
    THEN [val |-> short[label][ch], ok |-> TRUE]
    ELSE [val |-> <<>>, ok |-> FALSE]

markDisputedAlways(tk) == Edit(TRUE, [tk EXCEPT !.Tags = Append(@, kDisputed)], 1)

\* func (tk task) markDisputed() int
markDisputed(tk) ==
    IF isDisputed(tk) THEN Edit(FALSE, tk, 1)
    ELSE Edit(TRUE, [tk EXCEPT !.Tags = Append(@, kDisputed)], 1)

\* func (t task) markDone() int
markDone(tk) == Edit(TRUE, [tk EXCEPT !.Status = "completed"], 1)

markReviewedTagOnly(tk, nw) ==
    IF isReviewed(tk, nw) THEN Edit(FALSE, tk, 1)
    ELSE Edit(TRUE, [tk EXCEPT !.Tags = Append(@, reviewTag)], 1)

\* func (t task) markReviewed() int
markReviewed(tk, nw) ==
    IF isReviewed(tk, nw) THEN Edit(FALSE, tk, 1)
    ELSE IF Len(tk.Completed) = 0
         THEN Edit(TRUE, [tk EXCEPT !.Reviewed = Format(nw)], 1)
         ELSE Edit(TRUE, [tk EXCEPT !.Tags = Append(@, reviewTag)], 1)

NotColor(tag) == tag # RED /\ tag # GREEN /\ tag # BLUE

editTaskColorKeep(tk, ch) ==
    LET a == MapsTo(ch, "color")
    IN  IF a.ok THEN Edit(TRUE, [tk EXCEPT !.Tags = Append(tk.Tags, a.val)], 0)
        ELSE Edit(FALSE, tk, 0)

\* func (t task) editTaskColor() int, ch the key showAndGetResponse reads
editTaskColor(tk, ch) ==
    LET tags == SelectSeq(tk.Tags, NotColor)
        a == MapsTo(ch, "color")
    IN  IF a.ok
        THEN [Edit(TRUE, [tk EXCEPT !.Tags = Append(tags, a.val)], 0)
                 EXCEPT !.w = Append(tags, a.val)]
        ELSE [Edit(FALSE, tk, 0) EXCEPT !.w = tags]

editDescriptionAdvance(tk, line) ==
    LET desc == Trim(line)
    IN  IF Len(desc) > 0 THEN Edit(TRUE, [tk EXCEPT !.Description = desc], 1)
        ELSE Edit(FALSE, tk, 1)

editDescriptionBlank(tk, line) == Edit(TRUE, [tk EXCEPT !.Description = Trim(line)], 0)

\* func (t task) editDescription() int, line what ReadString('\n') returns
editDescription(tk, line) ==
    LET desc == Trim(line)
    IN  IF Len(desc) > 0 THEN Edit(TRUE, [tk EXCEPT !.Description = desc], 0)
        ELSE Edit(FALSE, tk, 0)

NotUser(tag) == tag[1] # "@"

editAssignedKeep(tk, ch) ==
    LET a == MapsTo(ch, "user")
    IN  IF a.ok THEN Edit(TRUE, [tk EXCEPT !.Tags = Append(tk.Tags, <<"@">> \o a.val)], 0)
        ELSE Edit(FALSE, tk, 0)

\* func (t task) editAssigned() int
editAssigned(tk, ch) ==
    LET tags == SelectSeq(tk.Tags, NotUser)
        a == MapsTo(ch, "user")
    IN  IF a.ok
        THEN [Edit(TRUE, [tk EXCEPT !.Tags = Append(tags, <<"@">> \o a.val)], 0)
                 EXCEPT !.w = Append(tags, <<"@">> \o a.val)]
        ELSE [Edit(FALSE, tk, 0) EXCEPT !.w = tags]

\* func (t task) editProject() int
editProject(tk, ch) ==
    LET p == MapsTo(ch, "project")
    IN  IF p.ok THEN Edit(TRUE, [tk EXCEPT !.Project = p.val], 0)
        ELSE Edit(FALSE, tk, 0)

editTagsAppend(tk, ch) ==
    LET tag == MapsTo(ch, "tag")
    IN  IF tag.ok THEN Edit(TRUE, [tk EXCEPT !.Tags = Append(tk.Tags, tag.val)], 0)
        ELSE Edit(FALSE, tk, 0)

\* func (t task) editTags() int
editTags(tk, ch) ==
    LET tag == MapsTo(ch, "tag")
        Other(prev) == prev # tag.val
        newt == SelectSeq(tk.Tags, Other)
        found == \E k \in DOMAIN tk.Tags : tk.Tags[k] = tag.val
        tags == IF found THEN newt ELSE Append(newt, tag.val)
    IN  IF tag.ok
        THEN [Edit(TRUE, [tk EXCEPT !.Tags = tags], 0) EXCEPT !.w = tags]
        ELSE Edit(FALSE, tk, 0)

\* func (t task) deleteTask() int
deleteTask(tk) == Edit(TRUE, [tk EXCEPT !.Status = "deleted"], 1)

-----------------------------------------------------------------------------
(* The backend: what `task <filter> export` and `task import` do.          *)

\* one filter argument of `task`, matched against one record
Matches(rec, arg) ==
    IF arg = <<>> THEN TRUE
    ELSE IF HasPrefix(arg, <<"+">>) THEN \E k \in DOMAIN rec.Tags : rec.Tags[k] = Tail(arg)
    ELSE IF HasPrefix(arg, <<"p", "r", "o", "j", "e", "c", "t", ":">>)
         THEN rec.Project = SubSeq(arg, 9, Len(arg))
    ELSE rec.Uuid = arg \/ Contains(rec.Description, arg)

MatchesAll(rec, args) == \A k \in DOMAIN args : Matches(rec, args[k])

\* exec.Command("task", argf...) with argf ending in "export": the records the backend prints
Export(args) ==
    LET Hit(rec) == MatchesAll(rec, SubSeq(args, 1, Len(args) - 1))
    IN  SelectSeq(backend, Hit)

\* first position of the backend holding uuid, 0 when there is none
IndexOf(uuid) ==
    IF \E k \in DOMAIN backend : backend[k].Uuid = uuid
    THEN CHOOSE k \in DOMAIN backend :
             backend[k].Uuid = uuid /\ \A l \in 1..(k - 1) : backend[l].Uuid # uuid
    ELSE 0

\* the uuid the backend gives the next new task
FreshUuid == <<"n", "e", "w">> \o [k \in 1..Len(backend) |-> "x"]

\* what the backend stores for an imported task: it stamps modified, and end on
\* a task that is completed or deleted and carries none; urgency is its own
Stored(tk, old, at) ==
    [tk EXCEPT !.Modified = Format(at),
               !.Created = IF tk.Created = <<>> THEN Format(at) ELSE tk.Created,
               !.Completed = IF tk.Status \in {"completed", "deleted"} /\ tk.Completed = <<>>
                             THEN Format(at) ELSE tk.Completed,
               !.Urgency = old.Urgency]

\* `echo body | task import`: the store after the import of tk, written at time `at`
Import(tk, at) ==
    IF tk.Uuid # <<>> /\ IndexOf(tk.Uuid) # 0
    THEN [backend EXCEPT ![IndexOf(tk.Uuid)] = Stored(tk, @, at)]
    ELSE Append(backend,
                Stored([tk EXCEPT !.Uuid = IF tk.Uuid = <<>> THEN FreshUuid ELSE tk.Uuid],
                       [Urgency |-> 0], at))

-----------------------------------------------------------------------------
(* part_001: fetching *)

\* func (tk task) sortTime() time.Time
sortTime(tk) == IF Len(tk.Completed) = 0 THEN Parse(tk.Created) ELSE Parse(tk.Completed)

\* sortTime returns: time.Parse accepts the stamp (log.Fatalf otherwise)
sortTimeOk(tk) == IF Len(tk.Completed) = 0 THEN ParseOk(tk.Created) ELSE ParseOk(tk.Completed)

\* func (tk task) sortColor() int
sortColor(tk) ==
    LET c == colorTag(tk)
    IN  IF c = RED THEN 0 ELSE IF c = BLUE THEN 1 ELSE IF c = GREEN THEN 2 ELSE -1

LessAscending(a, b, by) ==
    IF by = "URGENCY" THEN a.Urgency < b.Urgency
    ELSE IF by = "DATE" THEN sortTime(b) < sortTime(a)
    ELSE sortColor(a) < sortColor(b)

\* func (b ByDefined) Less(i int, j int) bool, under sort mode by
Less(a, b, by) ==
    IF by = "URGENCY" THEN a.Urgency > b.Urgency
    ELSE IF by = "DATE" THEN sortTime(b) < sortTime(a)
    ELSE sortColor(a) < sortColor(b)

SortedKeep(s, by) == {s}

\* the orders sort.Sort may leave s in: every permutation of s with no inversion
Sorted(s, by) ==
    LET n == Len(s)
        perms == {p \in [1..n -> 1..n] : \A k, l \in 1..n : k # l => p[k] # p[l]}
        ok == {p \in perms : \A k, l \in 1..n : k < l => ~Less(s[p[l]], s[p[k]], by)}
    IN  {[k \in 1..n |-> s[p[k]]] : p \in ok}

\* sort.Sort(ByDefined(s)) ends in sortTime's log.Fatalf: in mode DATE, Less is
\* called on every item of a list of two or more
SortFatal(s, by) == by = "DATE" /\ Len(s) > 1 /\ \E k \in DOMAIN s : ~sortTimeOk(s[k])

\* the arguments of the export command, and the number of "_end" tokens
ExportArgs(flt) ==
    LET NotEnd(arg) == arg # <<"_", "e", "n", "d">>
    IN  IF Len(flt) > 0 THEN SelectSeq(Append(Split(flt), <<"e", "x", "p", "o", "r", "t">>), NotEnd)
        ELSE << <<"e", "x", "p", "o", "r", "t">> >>

Completed(flt) ==
    LET IsEnd(arg) == arg = <<"_", "e", "n", "d">>
    IN  IF Len(flt) > 0 THEN Len(SelectSeq(Split(flt), IsEnd)) ELSE 0

Week == 7 * 24 * Hour

RECURSIVE KeepDeleted(_, _, _, _, _)
KeepDeleted(recs, completed, nw, final, err) ==
    IF recs = <<>> THEN <<final, err>>
    ELSE LET r == Head(recs)
         IN  IF Len(r.Completed) > 0 /\ ~ParseOk(r.Completed) THEN <<final, "stop">>
             ELSE LET err2 == IF Len(r.Completed) > 0 THEN "nil" ELSE err
                      kept == IF completed > 0
                              THEN Len(r.Completed) > 0
                                   /\ nw - Parse(r.Completed) < completed * Week
                              ELSE Len(r.Completed) = 0
                  IN  KeepDeleted(Tail(recs), completed, nw,
                                  IF kept THEN Append(final, r) ELSE final, err2)

RECURSIVE KeepInclusive(_, _, _, _, _)
KeepInclusive(recs, completed, nw, final, err) ==
    IF recs = <<>> THEN <<final, err>>
    ELSE LET r == Head(recs)
         IN  IF r.Status = "deleted" THEN KeepInclusive(Tail(recs), completed, nw, final, err)
             ELSE IF Len(r.Completed) > 0 /\ ~ParseOk(r.Completed) THEN <<final, "stop">>
             ELSE LET err2 == IF Len(r.Completed) > 0 THEN "nil" ELSE err
                      kept == IF completed > 0
                              THEN Len(r.Completed) > 0
                                   /\ nw - Parse(r.Completed) <= completed * Week
                              ELSE Len(r.Completed) = 0
                  IN  KeepInclusive(Tail(recs), completed, nw,
                                    IF kept THEN Append(final, r) ELSE final, err2)

\* the loop of getTasks over the decoded records: <<final, err>>, err the value of the
\* variable err when the loop ends ("stop" when it returned from inside the loop)
RECURSIVE Keep(_, _, _, _, _)
Keep(recs, completed, nw, final, err) ==
    IF recs = <<>> THEN <<final, err>>
    ELSE LET r == Head(recs)
         IN  IF r.Status = "deleted" THEN Keep(Tail(recs), completed, nw, final, err)
             ELSE IF Len(r.Completed) > 0 /\ ~ParseOk(r.Completed) THEN <<final, "stop">>
             ELSE LET err2 == IF Len(r.Completed) > 0 THEN "nil" ELSE err
                      kept == IF completed > 0
                              THEN Len(r.Completed) > 0
                                   /\ nw - Parse(r.Completed) < completed * Week
                              ELSE Len(r.Completed) = 0
                  IN  Keep(Tail(recs), completed, nw,
                           IF kept THEN Append(final, r) ELSE final, err2)

\* func getTasks(filter string) ([]task, error): the results it may return, each
\* [tasks, err].  runOk: the command ran; recs, bad: what json.Unmarshal decoded
\* and whether it reported an error.  err "fatal": the process ended inside the sort
getTasks(flt, runOk, recs, bad, nw, by) ==
    IF ~runOk THEN {[tasks |-> <<>>, err |-> "run"]}
    ELSE LET res == Keep(recs, Completed(flt), nw, <<>>, IF bad THEN "decode" ELSE "nil")
         IN  IF res[2] = "stop"
             THEN {[tasks |-> res[1] \o SubSeq(recs, Len(res[1]) + 1, Len(recs)),
                    err |-> "parse"]}
             ELSE IF SortFatal(res[1], by) THEN {[tasks |-> <<>>, err |-> "fatal"]}
             ELSE {[tasks |-> s, err |-> res[2]] : s \in Sorted(res[1], by)}

\* func getTask(uuid string) task: ok is FALSE when it ends in log.Fatal
getTask(uuid, runOk, bad) ==
    LET out == Export(<<uuid, <<"e", "x", "p", "o", "r", "t">> >>)
    IN  IF ~runOk \/ bad \/ Len(out) # 1 THEN [ok |-> FALSE, task |-> <<>>]
        ELSE [ok |-> TRUE, task |-> out[1]]

-----------------------------------------------------------------------------
(* github.com/manishrjain/keys, the keybinding registry *)

Contexts == {"project", "tag", "user", "color", "help", "task", "tasks"}

\* the fallback alphabet of BestEffortAssign
Alphabet ==
    <<"a", "b", "c", "d", "e", "f", "g", "h", "i", "j", "k", "l", "m",
      "n", "o", "p", "q", "r", "s", "t", "u", "v", "w", "x", "y", "z">>

\* m with character ch bound to val
Bind(m, ch, val) == (ch :> val) @@ m

Bound(m, val) == \E c \in DOMAIN m : m[c] = val

\* the first character of chars that m leaves free, <<>> when there is none
FirstFree(m, chars) ==
    LET free == {k \in DOMAIN chars : chars[k] \notin DOMAIN m}
    IN  IF free = {} THEN <<>> ELSE <<chars[CHOOSE k \in free : \A l \in free : k <= l]>>

AutoAssignAgain(sc, val, label) ==
    LET m == sc[label]
        c == FirstFree(m, val)
    IN  IF c = <<>> THEN sc
        ELSE [sc EXCEPT ![label] = Bind(m, c[1], val)]

\* (*keys.Shortcuts).AutoAssign(val, label)
AutoAssign(sc, val, label) ==
    LET m == sc[label]
        c == FirstFree(m, val)
    IN  IF Bound(m, val) \/ c = <<>> THEN sc
        ELSE [sc EXCEPT ![label] = Bind(m, c[1], val)]

BestEffortOverwrite(sc, ch, val, label) ==
    LET m == sc[label]
    IN  IF Bound(m, val) THEN sc
        ELSE [sc EXCEPT ![label] = Bind(m, ch, val)]

\* (*keys.Shortcuts).BestEffortAssign(ch, val, label)
BestEffortAssign(sc, ch, val, label) ==
    LET m == sc[label]
        c == FirstFree(m, Alphabet)
    IN  IF Bound(m, val) THEN sc
        ELSE IF ch \notin DOMAIN m THEN [sc EXCEPT ![label] = Bind(m, ch, val)]
        ELSE IF c = <<>> THEN sc
        ELSE [sc EXCEPT ![label] = Bind(m, c[1], val)]

\* func isNormalTag(t string) bool
isNormalTag(tag) ==
    /\ Len(tag) # 0
    /\ tag[1] \notin {"A", "B", "C", "D", "E", "F", "G", "H", "I", "J", "K", "L", "M",
                      "N", "O", "P", "Q", "R", "S", "T", "U", "V", "W", "X", "Y", "Z"}
    /\ tag[1] # "@" /\ tag[1] # "-"
    /\ ~(tag = RED \/ tag = GREEN \/ tag = BLUE)

\* the inner loop of generateMappings over one task's tags. The registry always has
\* the contexts of Contexts, so the test on DOMAIN sc is never true: it only makes
\* TLC evaluate the registry built so far before the next iteration (here and in
\* AssignTasks and AssignFrom), which keeps the evaluation shallow.
RECURSIVE AssignTags(_, _)
AssignTags(sc, tags) ==
    IF tags = <<>> \/ DOMAIN sc = {} THEN sc
    ELSE LET tg == Head(tags)
         IN  AssignTags(IF Len(tg) = 0 THEN sc
                        ELSE IF isNormalTag(tg) THEN AutoAssign(sc, tg, "tag")
                        ELSE IF tg[1] = "@" THEN AutoAssign(sc, Tail(tg), "user")
                        ELSE sc,
                        Tail(tags))

\* the outer loop of generateMappings over the fetched tasks
RECURSIVE AssignTasks(_, _)
AssignTasks(sc, tks) ==
    IF tks = <<>> \/ DOMAIN sc = {} THEN sc
    ELSE LET tk == Head(tks)
         IN  AssignTasks(IF Len(tk.Completed) > 0 \/ tk.Status = "deleted" THEN sc
                         ELSE AssignTags(AutoAssign(sc, tk.Project, "project"), tk.Tags),
                         Tail(tks))

\* the fixed list of BestEffortAssign calls of generateMappings, in order
Builtins ==
    << <<"r", RED, "color">>, <<"b", BLUE, "color">>, <<"g", GREEN, "color">>,
       <<"q", "quit", "help">>, <<"c", "clear", "help">>, <<"d", "completed", "help">>,
       <<"a", "assigned", "help">>, <<"p", "project", "help">>, <<"n", "new", "help">>,
       <<"t", "tag", "help">>, <<"s", "search", "help">>,
       <<"e", "description", "task">>, <<"a", "assigned", "task">>,
       <<"p", "project", "task">>, <<"c", "color", "task">>, <<"t", "tags", "task">>,
       <<"r", "reviewed", "task">>, <<"b", "back", "task">>, <<"q", "quit", "task">>,
       <<"x", "delete", "task">>, <<"d", "done", "task">>, <<"i", "disputed", "task">>,
       <<"f", "fix", "tasks">>, <<"a", "toggle show all", "tasks">>,
       <<"r", "review", "tasks">>, <<"u", "sort by urgency", "tasks">>,
       <<"d", "sort by date", "tasks">>, <<"c", "sort by color", "tasks">>,
       <<"g", "goto", "tasks">> >>

\* the calls of the list that are made for one context, in the order of the list
BuiltinsOf(label) ==
    LET Of(b) == b[3] = label
    IN  SelectSeq(Builtins, Of)

\* the registry after calls k.. of list, all for one context (calls for different
\* contexts do not touch each other's bindings)
RECURSIVE AssignFrom(_, _, _)
AssignFrom(sc, list, k) ==
    IF k > Len(list) \/ DOMAIN sc = {} THEN sc
    ELSE AssignFrom(BestEffortAssign(sc, list[k][1], list[k][2], list[k][3]), list, k + 1)

AssignBuiltins(sc) == [label \in Contexts |-> AssignFrom(sc, BuiltinsOf(label), 1)[label]]

\* func generateMappings(), tks what getTasks("") returned
generateMappings(sc, tks) == AssignBuiltins(AssignTasks(sc, tks))


-----------------------------------------------------------------------------
(* The initial store and the inputs *)

\* the clock when the process starts, 30 hours after the oldest stamp
Now0 == 30 * Hour

Task(uuid, status, created, completed, modified, reviewed, project, desc, tags, urgency) ==
    [Uuid |-> uuid, Status |-> status, Created |-> created, Completed |-> completed,
     Modified |-> modified, Reviewed |-> reviewed, Project |-> project,
     Description |-> desc, Tags |-> tags, Urgency |-> urgency]

\* the zero value of the task struct
NoTask == Task(<<>>, "", <<>>, <<>>, <<>>, <<>>, <<>>, <<>>, <<>>, 0)

PX == <<"p", "x">>
WIP == <<"w", "i", "p">>
AtAl == <<"@", "a", "l">>
AtBo == <<"@", "b", "o">>

\* an open task with assignee, color and a free tag, never reviewed
Rec1 == Task(<<"u", "1">>, "pending", Format(0), <<>>, Format(0), <<>>, PX,
             <<"f", "i", "x">>, <<AtAl, RED, WIP>>, 5)
\* an open task with an assignee and no color, reviewed 30 hours ago
Rec2 == Task(<<"u", "2">>, "pending", Format(0), <<>>, Format(Hour), Format(0), PX,
             <<"a", "d", "d">>, <<AtBo>>, 9)

InitBackend == <<Rec1, Rec2>>

\* the lines a user types at "Enter description: "
Lines == { <<" ", "\n">>, <<" ", "n", "e", "w", "\n">> }

\* the keys a user may press in a context: every bound key, Enter, and an unbound key
Keys(label) == DOMAIN short[label] \cup {"\n", "?"}

\* the values of flag -f
CmdFilters == { <<"p", "r", "o", "j", "e", "c", "t", ":">> \o PX }

EmptyShortcuts == [c \in Contexts |-> << >>]

NoEdit == [op |-> "none", src |-> NoTask, choice |-> <<>>, at |-> 0, call |-> FALSE]

\* before, got: the working set a sort started from and the one it left, or the
\* tasks a fetch returned; args: the arguments of the export command; line: the
\* line typed at "Jump to: "; decode: json.Unmarshal reported an error in the fetch
NoLog ==
    [op |-> "none", keys |-> 0, n |-> 0, stored |-> {}, captured |-> <<>>,
     outcome |-> "", imports |-> 0, args |-> <<>>, before |-> <<>>, got |-> <<>>,
     line |-> <<>>, decode |-> FALSE]

AtMostOne(tags, Is(_)) == Len(SelectSeq(tags, Is)) <= 1

Init ==
    /\ backend = InitBackend
    /\ now = Now0
    /\ short = EmptyShortcuts
    /\ pc = "start"
    /\ filter \in CmdFilters
    /\ tasks = <<>>
    /\ i = 0
    /\ showAll = FALSE
    /\ sortBy = "URGENCY"
    /\ t = NoTask
    /\ move = 0
    /\ ret = "none"
    /\ imports = 0
    /\ exts = 0
    /\ edit = NoEdit
    /\ log = NoLog

-----------------------------------------------------------------------------
(* part_001: main and the shell *)

\* what the backend may answer to an export: the command fails, or prints the
\* matching records, or prints a payload json.Unmarshal rejects (after decoding
\* all of it, or none of it)
Outputs(args) ==
    { [runOk |-> FALSE, recs |-> <<>>, bad |-> FALSE],
      [runOk |-> TRUE, recs |-> Export(args), bad |-> FALSE],
      [runOk |-> TRUE, recs |-> Export(args), bad |-> TRUE],
      [runOk |-> TRUE, recs |-> <<>>, bad |-> TRUE] }

\* the results of getTasks(flt) against the backend as it is now
Fetch(flt) ==
    UNION { getTasks(flt, o.runOk, o.recs, o.bad, now, sortBy) : o \in Outputs(ExportArgs(flt)) }

\* MapsTo in a context whose values are action names; "" when the key is unbound
Ins(ch, label) == IF ch \in DOMAIN short[label] THEN short[label][ch] ELSE ""

\* a key of the context that resolves to the action
Pressed(label, ins) == \E ch \in Keys(label) : ch # "\n" /\ Ins(ch, label) = ins

Quit == <<"-", "1">>

\* the memory of the process after a step: where it stands and its live variables
\* (a variable no code path reads again holds its zero value)
Proc(npc, nfilter, ntasks, ni, nt, nmove, nret, nedit) ==
    /\ pc' = npc /\ filter' = nfilter /\ tasks' = ntasks /\ i' = ni
    /\ t' = nt /\ move' = nmove /\ ret' = nret /\ edit' = nedit

\* log.Fatal: the process exits with status 1
Fatal == Proc("fatal", <<>>, <<>>, 0, NoTask, 0, "none", NoEdit)

\* runShell returns f: main leaves its loop on "-1" and persists the keys, or
\* trims the filter and calls runShell again
MainLoop(f) ==
    IF f = Quit THEN Proc("done", f, <<>>, 0, NoTask, 0, "none", NoEdit)
    ELSE Proc("shell", Trim(f), <<>>, 0, NoTask, 0, "none", NoEdit)

\* the number of times short.Persist(*config) has run: it is the statement after
\* main's loop, so it has run once when main has left the loop, and not before
ConfigWrites == IF pc = "done" THEN 1 ELSE 0

\* what a step that calls neither the backend nor the registry leaves alone
Quiet == UNCHANGED <<backend, now, short, showAll, sortBy, imports, exts>> /\ log' = NoLog

NonEmpty(s) == s # <<>>
TokenCount(f) == Len(SelectSeq(Split(f), NonEmpty))

\* main: flag.Parse, keys.ParseConfig, generateMappings
Startup ==
    /\ pc = "start"
    /\ \E res \in Fetch(<<>>) :
          IF res.err # "nil" THEN Fatal /\ short' = short
          ELSE Proc("shell", filter, <<>>, 0, NoTask, 0, "none", NoEdit)
               /\ short' = generateMappings(short, res.tasks)
    /\ UNCHANGED <<backend, now, showAll, sortBy, imports, exts>>
    /\ log' = NoLog

ShownAlways(orig) == orig

\* the first loop of showAndReviewTasks
Shown(orig) ==
    LET Show(tk) == showAll \/ ~isReviewed(tk, now)
    IN  SelectSeq(orig, Show)

\* runShell, key Enter
ShellEnter ==
    /\ pc = "shell"
    /\ IF Len(filter) > 0
       THEN \E o \in Outputs(ExportArgs(filter)) :
            \E res \in getTasks(filter, o.runOk, o.recs, o.bad, now, sortBy) :
               /\ IF res.err # "nil" THEN Fatal
                  ELSE Proc("listing", filter, Shown(res.tasks), 0, NoTask, 0, "none", NoEdit)
               /\ log' = [NoLog EXCEPT !.op = "fetch", !.outcome = res.err,
                                       !.args = ExportArgs(filter), !.got = res.tasks,
                                       !.decode = o.bad]
       ELSE MainLoop(filter) /\ log' = NoLog
    /\ UNCHANGED <<backend, now, short, showAll, sortBy, imports, exts>>

ShellQuit == pc = "shell" /\ Pressed("help", "quit") /\ MainLoop(Quit) /\ Quiet

ShellClear == pc = "shell" /\ Pressed("help", "clear") /\ MainLoop(<<>>) /\ Quiet

ShellCompleted ==
    /\ pc = "shell" /\ Pressed("help", "completed")
    /\ TokenCount(filter) < MaxFilter
    /\ MainLoop(filter \o <<" ", "_", "e", "n", "d">>)
    /\ Quiet

\* the terms a user types at "Enter search terms: "
Terms == { <<"n", "e", "w", "\n">>, <<" ", "\n">> }

ShellSearch ==
    /\ pc = "shell" /\ Pressed("help", "search")
    /\ \E line \in Terms :
          /\ Trim(line) # <<>> => TokenCount(filter) < MaxFilter
          /\ MainLoop(filter \o <<" ">> \o Trim(line))
    /\ Quiet

\* the cases "assigned", "project" and "tag" of runShell
ShellChoice(ins, label, prefix) ==
    /\ Pressed("help", ins)
    /\ \E ch \in Keys(label) :
          LET a == MapsTo(ch, label)
          IN  IF a.ok
              THEN TokenCount(filter) < MaxFilter /\ MainLoop(filter \o prefix \o a.val)
              ELSE MainLoop(filter)
    /\ Quiet

ShellAssigned == pc = "shell" /\ ShellChoice("assigned", "user", <<" ", "+", "@">>)

ShellProject ==
    pc = "shell" /\ ShellChoice("project", "project", <<" ", "p", "r", "o", "j", "e", "c", "t", ":">>)

ShellTag == pc = "shell" /\ ShellChoice("tag", "tag", <<" ", "+">>)

\* the last value the loop over args leaves in a variable: the argument with the
\* prefix, cut from position `from`; <<>> when no argument has the prefix
LastArg(args, prefix, from) ==
    LET hits == {k \in DOMAIN args : HasPrefix(args[k], prefix)}
    IN  IF hits = {} THEN <<>>
        ELSE LET k == CHOOSE h \in hits : \A g \in hits : g <= h
             IN  SubSeq(args[k], from, Len(args[k]))

doImportEntryBlind(tk) == "import"

\* doImport's first test: the guard runs for a task that has a uuid
doImportEntry(tk) == IF Len(tk.Uuid) > 0 THEN "guard" ELSE "import"

\* the task literal of case "new", from the keys pressed for project and user
NewTask(chp, chu) ==
    LET args == Split(filter)
        p0 == LastArg(args, <<"p", "r", "o", "j", "e", "c", "t", ":">>, 9)
        u0 == LastArg(args, <<"+", "@">>, 2)
        p == IF Len(p0) = 0 THEN MapsTo(chp, "project") ELSE [val |-> p0, ok |-> TRUE]
        u == IF Len(u0) = 0
             THEN [val |-> <<"@">> \o MapsTo(chu, "user").val, ok |-> MapsTo(chu, "user").ok]
             ELSE [val |-> u0, ok |-> TRUE]
    IN  [ok |-> p.ok /\ u.ok,
         t |-> [NoTask EXCEPT !.Project = p.val, !.Status = "pending",
                              !.Tags = <<u.val, GREEN>>]]

\* the case "new" of runShell
ShellNew ==
    /\ pc = "shell" /\ Pressed("help", "new")
    /\ \E chp \in Keys("project"), chu \in Keys("user"), line \in Lines :
          LET nt == NewTask(chp, chu)
              e == editDescription(nt.t, line)
          IN  IF nt.ok /\ e.call
              THEN Proc(doImportEntry(e.t), filter, <<>>, 0, e.t, 0, "shell",
                        [op |-> "new", src |-> nt.t, choice |-> Trim(line), at |-> now,
                         call |-> TRUE])
              ELSE MainLoop(filter)
    /\ Quiet

\* runShell, a key that no case handles
ShellOther ==
    /\ pc = "shell"
    /\ \E ch \in Keys("help") : ch # "\n" /\ Ins(ch, "help") = ""
    /\ MainLoop(filter)
    /\ Quiet


-----------------------------------------------------------------------------
(* part_001: showAndReviewTasks *)

\* key Enter: showAndReviewTasks returns, runShell returns the filter
ListEnter == pc = "listing" /\ MainLoop(filter) /\ Quiet

Digits == <<"0", "1", "2", "3", "4", "5", "6", "7", "8", "9">>
IsDigit(c) == \E d \in DOMAIN Digits : Digits[d] = c
DigitVal(c) == (CHOOSE d \in DOMAIN Digits : Digits[d] = c) - 1

RECURSIVE Number(_, _)
Number(s, acc) == IF s = <<>> THEN acc ELSE Number(Tail(s), 10 * acc + DigitVal(Head(s)))

\* strconv.Atoi: [ok, val]
Atoi(s) ==
    LET neg == s # <<>> /\ Head(s) = "-"
        body == IF s # <<>> /\ Head(s) \in {"-", "+"} THEN Tail(s) ELSE s
    IN  IF body = <<>> \/ \E k \in DOMAIN body : ~IsDigit(body[k])
        THEN [ok |-> FALSE, val |-> 0]
        ELSE [ok |-> TRUE, val |-> IF neg THEN -Number(body, 0) ELSE Number(body, 0)]

getJumpZero(line) ==
    LET j == Atoi(SubSeq(line, 1, Len(line) - 1))
    IN  IF j.ok THEN j.val ELSE 0

\* func getJump() int, line what ReadString('\n') returns
getJump(line) ==
    LET j == Atoi(SubSeq(line, 1, Len(line) - 1))
    IN  IF j.ok THEN j.val ELSE -1

\* the lines a user types at "Jump to: "
JumpLines ==
    { <<"0", "\n">>, <<"1", "\n">>, <<"2", "\n">>, <<"7", "\n">>,
      <<"-", "1", "\n">>, <<"-", "2", "\n">>, <<"x", "\n">>, <<"\n">> }

\* printInfo up to its read of a key: it parses tk.Created and, when the
\* task has one, tk.Completed, and ends in log.Fatal when time.Parse fails
printInfoOk(tk) == ParseOk(tk.Created) /\ (Len(tk.Completed) > 0 => ParseOk(tk.Completed))

LoopClamped(j, tks) ==
    IF j < Len(tks)
    THEN Proc("editing", filter, tks, IF j < 0 THEN 0 ELSE j, NoTask, 0, "none", NoEdit)
    ELSE MainLoop(filter)

\* the review loop with index j: printInfo shows tasks[j] and waits for a
\* key, or ends the process on a stamp it cannot parse; or the loop has ended
Loop(j, tks) ==
    IF j >= 0 /\ j < Len(tks)
    THEN IF printInfoOk(tks[j + 1])
         THEN Proc("editing", filter, tks, j, NoTask, 0, "none", NoEdit)
         ELSE Fatal
    ELSE MainLoop(filter)

\* case "goto"
ListGoto ==
    /\ pc = "listing" /\ Pressed("tasks", "goto")
    /\ \E line \in JumpLines :
          /\ IF getJump(line) = -1 THEN MainLoop(filter)
             ELSE Loop(getJump(line), tasks)
          /\ log' = [NoLog EXCEPT !.op = "goto", !.line = line]
    /\ UNCHANGED <<backend, now, short, showAll, sortBy, imports, exts>>

\* case "review"
ListReview == pc = "listing" /\ Pressed("tasks", "review") /\ Loop(0, tasks) /\ Quiet

\* case "toggle show all"
ListToggleShowAll ==
    /\ pc = "listing" /\ Pressed("tasks", "toggle show all")
    /\ showAll' = ~showAll
    /\ MainLoop(filter)
    /\ UNCHANGED <<backend, now, short, sortBy, imports, exts>>
    /\ log' = NoLog

NoColorAlways(tk) == TRUE

\* case "fix": len(tk.colorTag()) == 0
NoColor(tk) == Len(colorTag(tk)) = 0

\* case "fix": the loop starts
ListFix ==
    /\ pc = "listing" /\ Pressed("tasks", "fix")
    /\ Proc("fix", filter, tasks, 0, NoTask, 0, "none", NoEdit)
    /\ Quiet

\* case "fix": one round of the loop, up to the call of doImport; goto SHOW at its end
FixStep ==
    /\ pc = "fix"
    /\ IF i >= Len(tasks)
       THEN Proc("listing", filter, tasks, 0, NoTask, 0, "none", NoEdit)
       ELSE IF NoColor(tasks[i + 1])
       THEN LET fixed == [tasks[i + 1] EXCEPT !.Tags = Append(@, GREEN)]
            IN  Proc(doImportEntry(fixed), filter, [tasks EXCEPT ![i + 1] = fixed], i,
                     fixed, 0, "fix",
                     [op |-> "fix", src |-> tasks[i + 1], choice |-> GREEN, at |-> now,
                      call |-> TRUE])
       ELSE Proc("fix", filter, tasks, i + 1, NoTask, 0, "none", NoEdit)
    /\ Quiet

\* cases "sort by urgency", "sort by date", "sort by color"
ListSort(ins, by) ==
    /\ Pressed("tasks", ins)
    /\ sortBy' = by
    /\ IF SortFatal(tasks, by) THEN Fatal /\ log' = NoLog
       ELSE \E sorted \in Sorted(tasks, by) :
               /\ Proc("listing", filter, sorted, 0, NoTask, 0, "none", NoEdit)
               /\ log' = [NoLog EXCEPT !.op = "sort", !.before = tasks, !.got = sorted]
    /\ UNCHANGED <<backend, now, short, showAll, imports, exts>>

ListSortUrgency == pc = "listing" /\ ListSort("sort by urgency", "URGENCY")
ListSortDate == pc = "listing" /\ ListSort("sort by date", "DATE")
ListSortColor == pc = "listing" /\ ListSort("sort by color", "COLOR")

\* a key that no case handles
ListOther ==
    /\ pc = "listing"
    /\ \E ch \in Keys("tasks") : ch # "\n" /\ Ins(ch, "tasks") = ""
    /\ MainLoop(filter)
    /\ Quiet

-----------------------------------------------------------------------------
(* part_001: printInfo, one key of the item editor *)

\* printInfo's switch took a case that ran editing method e
Dispatch(op, e, choice) ==
    /\ LET seen == [op |-> op, src |-> tasks[i + 1], choice |-> choice, at |-> now,
                    call |-> e.call]
           left == [tasks EXCEPT ![i + 1].Tags = Overwritten(@, e.w)]
       IN  IF e.call
           THEN Proc(doImportEntry(e.t), filter, left, i, e.t, e.move, "review", seen)
           ELSE Proc("refresh", filter, left, i, NoTask, e.move, "none", seen)
    /\ Quiet

Editing(ins) == pc = "editing" /\ Pressed("task", ins)

EditBackStay == Editing("back") /\ Dispatch("back", Edit(FALSE, tasks[i + 1], 0), <<>>)

\* case "back"
EditBack == Editing("back") /\ Dispatch("back", Edit(FALSE, tasks[i + 1], -1), <<>>)

EditQuit == Editing("quit") /\ Dispatch("quit", Edit(FALSE, tasks[i + 1], Len(tasks)), <<>>)

EditDescription ==
    /\ Editing("description")
    /\ \E line \in Lines : Dispatch("description", editDescription(tasks[i + 1], line), Trim(line))

EditAssigned ==
    /\ Editing("assigned")
    /\ \E ch \in Keys("user") :
          Dispatch("assigned", editAssigned(tasks[i + 1], ch), MapsTo(ch, "user").val)

EditProject ==
    /\ Editing("project")
    /\ \E ch \in Keys("project") :
          Dispatch("project", editProject(tasks[i + 1], ch), MapsTo(ch, "project").val)

EditColor ==
    /\ Editing("color")
    /\ \E ch \in Keys("color") :
          Dispatch("color", editTaskColor(tasks[i + 1], ch), MapsTo(ch, "color").val)

EditTags ==
    /\ Editing("tags")
    /\ \E ch \in Keys("tag") :
          Dispatch("tags", editTags(tasks[i + 1], ch), MapsTo(ch, "tag").val)

EditReviewed == Editing("reviewed") /\ Dispatch("reviewed", markReviewed(tasks[i + 1], now), <<>>)

EditDelete == Editing("delete") /\ Dispatch("delete", deleteTask(tasks[i + 1]), <<>>)

EditDone == Editing("done") /\ Dispatch("done", markDone(tasks[i + 1]), <<>>)

\* func (tk task) toggleDisputed() int: an idempotent set of the dispute label
toggleDisputed(tk) == markDisputed(tk)

EditDisputed == Editing("disputed") /\ Dispatch("disputed", toggleDisputed(tasks[i + 1]), <<>>)

EditOtherStay ==
    /\ pc = "editing"
    /\ \E ch \in Keys("task") : Ins(ch, "task") = ""
    /\ Dispatch("other", Edit(FALSE, tasks[i + 1], 0), <<>>)

\* the default case: a key with no binding in context "task"
EditOther ==
    /\ pc = "editing"
    /\ \E ch \in Keys("task") : Ins(ch, "task") = ""
    /\ Dispatch("other", Edit(FALSE, tasks[i + 1], 1), <<>>)


-----------------------------------------------------------------------------
(* part_002: doImport *)

\* the last-modified stamps the backend holds under a uuid
StoredModified(uuid) ==
    {backend[k].Modified : k \in {l \in DOMAIN backend : backend[l].Uuid = uuid}}

doImportGuardFirst(tk, res) ==
    IF res.err # "nil" THEN "fatal"
    ELSE IF Len(res.tasks) >= 1 /\ res.tasks[1].Modified # tk.Modified THEN "conflict"
    ELSE "import"

doImportGuardStrict(tk, res) ==
    IF res.err # "nil" THEN "fatal"
    ELSE IF Len(res.tasks) > 1 THEN "fatal"
    ELSE IF Len(res.tasks) = 1 /\ res.tasks[1].Modified = tk.Modified THEN "import"
    ELSE "conflict"

\* doImport from the result of getTasks(t.Uuid) on: "fatal" (log.Fatalf), "conflict"
\* (the message, then one key is awaited) or "import" (the task is imported)
doImportGuard(tk, res) ==
    IF res.err # "nil" THEN "fatal"
    ELSE IF Len(res.tasks) > 1 THEN "fatal"
    ELSE IF Len(res.tasks) = 1 /\ res.tasks[1].Modified # tk.Modified THEN "conflict"
    ELSE "import"

\* doImport: getTasks(t.Uuid) and the tests on its result
GuardRead ==
    /\ pc = "guard"
    /\ \E res \in Fetch(t.Uuid) :
          LET outcome == doImportGuard(t, res)
          IN  /\ CASE outcome = "fatal" -> Fatal
                   [] outcome = "conflict" -> Proc("ack", filter, tasks, i, t, move, ret, edit)
                   [] OTHER -> Proc("import", filter, tasks, i, t, move, ret, edit)
              /\ log' = [NoLog EXCEPT !.op = "guard", !.n = Len(res.tasks),
                                      !.stored = StoredModified(t.Uuid),
                                      !.captured = t.Modified,
                                      !.outcome = outcome, !.imports = imports]
    /\ UNCHANGED <<backend, now, short, showAll, sortBy, imports, exts>>

\* doImport returns to its caller: the review loop, the fix loop or runShell
ReturnFromImport ==
    CASE ret = "review" -> Proc("refresh", filter, tasks, i, NoTask, move, "none", edit)
      [] ret = "fix" -> Proc("fix", filter, tasks, i + 1, NoTask, 0, "none", NoEdit)
      [] OTHER -> MainLoop(filter)

AckThenImport == Proc("import", filter, tasks, i, t, move, ret, edit)

\* doImport after the conflict message: os.Stdin.Read(r); return
AfterConflict == ReturnFromImport

\* doImport: the key that acknowledges a conflict
Ack ==
    /\ pc = "ack"
    /\ AfterConflict
    /\ log' = [log EXCEPT !.op = "ack", !.keys = 1]
    /\ UNCHANGED <<backend, now, short, showAll, sortBy, imports, exts>>

ImportStepRetry ==
    /\ pc = "import"
    /\ imports + exts < MaxWrites
    /\ imports' = imports + 1
    /\ log' = [NoLog EXCEPT !.op = "import", !.stored = StoredModified(t.Uuid),
                            !.captured = t.Modified, !.imports = imports]
    /\ \E ok \in BOOLEAN :
          IF ok
          THEN /\ backend' = Import(t, now + TicksPerSec)
               /\ now' = now + TicksPerSec
               /\ ReturnFromImport
          ELSE Proc("import", filter, tasks, i, t, move, ret, edit) /\ UNCHANGED <<backend, now>>
    /\ UNCHANGED <<short, showAll, sortBy, exts>>

\* doImport: json.Marshal and `task import`
ImportStep ==
    /\ pc = "import"
    /\ imports + exts < MaxWrites
    /\ imports' = imports + 1
    /\ log' = [NoLog EXCEPT !.op = "import", !.stored = StoredModified(t.Uuid),
                            !.captured = t.Modified, !.imports = imports]
    /\ \E ok \in BOOLEAN :
          IF ok
          THEN /\ backend' = Import(t, now + TicksPerSec)
               /\ now' = now + TicksPerSec
               /\ ReturnFromImport
          ELSE Fatal /\ UNCHANGED <<backend, now>>
    /\ UNCHANGED <<short, showAll, sortBy, exts>>

-----------------------------------------------------------------------------
(* part_001: the refresh of the review loop *)

RefreshedKeep(tks, k, g) == tks

RefreshedDrop(tks, k, g) ==
    IF g.Status \in {"completed", "deleted"}
    THEN SubSeq(tks, 1, k) \o SubSeq(tks, k + 2, Len(tks))
    ELSE [tks EXCEPT ![k + 1] = g]

\* tasks[i] = getTask(tk.Uuid)
Refreshed(tks, k, g) == [tks EXCEPT ![k + 1] = g]

\* tasks[i] = getTask(tk.Uuid); i += move; and the test of the loop
Refresh ==
    /\ pc = "refresh"
    /\ \E runOk, bad \in BOOLEAN :
          LET g == getTask(tasks[i + 1].Uuid, runOk, bad)
          IN  IF ~g.ok THEN Fatal
              ELSE Loop(i + move, Refreshed(tasks, i, g.task))
    /\ log' = [NoLog EXCEPT !.op = "refresh", !.outcome = log.outcome]
    /\ UNCHANGED <<backend, now, short, showAll, sortBy, imports, exts>>

-----------------------------------------------------------------------------
(* Other clients of the backend *)

\* A write of another client reaches the process only through its next call of
\* the backend, so it is placed right before one: while the shell waits (Enter
\* fetches) and before the guard's read, the import and the refresh.
Running == pc \in {"shell", "guard", "import", "refresh"}

\* the record the write lands on: any while the shell waits, the one the
\* process is about to read or write otherwise
Target(k) ==
    CASE pc \in {"guard", "import"} -> backend[k].Uuid = t.Uuid
      [] pc = "refresh" -> backend[k].Uuid = tasks[i + 1].Uuid
      [] OTHER -> TRUE

\* another client writes record k: the backend stamps it
ExtWrite(k, rec) ==
    /\ Running /\ Target(k)
    /\ imports + exts < MaxWrites
    /\ exts' = exts + 1
    /\ now' = now + TicksPerSec
    /\ backend' = [backend EXCEPT ![k] = [rec EXCEPT !.Modified = Format(now')]]
    /\ UNCHANGED <<short, pc, filter, tasks, i, showAll, sortBy, t, move, ret,
                   imports, edit, log>>

\* another client edits a task
ExtModify ==
    \E k \in DOMAIN backend :
        ExtWrite(k, [backend[k] EXCEPT !.Description = <<"e", "x", "t">>])

\* another client completes a task
ExtComplete ==
    \E k \in DOMAIN backend :
        /\ backend[k].Status = "pending"
        /\ ExtWrite(k, [backend[k] EXCEPT !.Status = "completed",
                                          !.Completed = Format(now + TicksPerSec)])

\* another client deletes a task
ExtDelete ==
    \E k \in DOMAIN backend :
        /\ backend[k].Status = "pending"
        /\ ExtWrite(k, [backend[k] EXCEPT !.Status = "deleted",
                                          !.Completed = Format(now + TicksPerSec)])

\* the store comes to hold a second record under a uuid (a sync gone wrong)
ExtDuplicate ==
    /\ Running
    /\ imports + exts < MaxWrites
    /\ \E k \in DOMAIN backend :
          /\ Target(k)
          /\ \A l \in DOMAIN backend : l # k => backend[l].Uuid # backend[k].Uuid
          /\ backend' = Append(backend, [backend[k] EXCEPT !.Modified = Format(now + TicksPerSec)])
    /\ exts' = exts + 1
    /\ now' = now + TicksPerSec
    /\ UNCHANGED <<short, pc, filter, tasks, i, showAll, sortBy, t, move, ret,
                   imports, edit, log>>

-----------------------------------------------------------------------------
(* The process alone on the backend: the shell command "new", the review     *)
(* session and the fix loop, with no other client writing.                   *)

Process ==
    \/ Startup
    \/ ShellEnter \/ ShellQuit \/ ShellClear \/ ShellOther
    \/ ListEnter \/ ListGoto \/ ListReview \/ ListFix \/ FixStep \/ ListOther
    \/ EditBack \/ EditQuit \/ EditDescription \/ EditAssigned \/ EditProject \/ EditColor
    \/ EditTags \/ EditReviewed \/ EditDelete \/ EditDone \/ EditDisputed \/ EditOther
    \/ GuardRead \/ Ack \/ ImportStep \/ Refresh

NextEdit == Process \/ ShellNew

EditSpec == Init /\ [][NextEdit]_vars

-----------------------------------------------------------------------------
(* The review session next to other clients: the user fetches, reviews,     *)
(* edits and fixes while other clients write to the backend in between.     *)

Next == Process \/ ExtModify \/ ExtComplete \/ ExtDelete \/ ExtDuplicate

Spec == Init /\ [][Next]_vars

-----------------------------------------------------------------------------
(* The review window: one open task with a reviewed marker, the clock       *)
(* passing, and the first loop of showAndReviewTasks asking isReviewed.      *)

\* the reviewed markers the store starts with
Markers == {Format(0), Format(Hour), Format(3 * Hour + TicksPerSec)}

\* hours the clock runs on past the marker
MaxHours == 31

TimeInit ==
    /\ \E m \in Markers :
          /\ backend = << [Rec1 EXCEPT !.Reviewed = m] >>
          /\ now = Parse(m)
    /\ short = EmptyShortcuts
    /\ pc = "shell"
    /\ filter = <<>>
    /\ tasks = <<>>
    /\ i = 0
    /\ showAll = FALSE
    /\ sortBy = "URGENCY"
    /\ t = NoTask
    /\ move = 0
    /\ ret = "none"
    /\ imports = 0
    /\ exts = 0
    /\ edit = NoEdit
    /\ log = NoLog

\* time passes: to one tick before the next full hour after the marker, from
\* there to the full hour, and on to one tick after it
Pass ==
    /\ pc = "shell"
    /\ LET off == (now - Parse(backend[1].Reviewed)) % Hour
       IN  now' = IF off = 1 THEN now + (Hour - 2) ELSE now + 1
    /\ now' <= Parse(backend[1].Reviewed) + MaxHours * Hour
    /\ tasks' = <<>>
    /\ log' = NoLog
    /\ UNCHANGED <<backend, short, pc, filter, i, showAll, sortBy, t, move, ret,
                   imports, exts, edit>>

\* the first loop of showAndReviewTasks over the task: t.isReviewed() is called
IsReviewedCall ==
    /\ pc = "shell"
    /\ log.op = "none"
    /\ tasks' = Shown(backend)
    /\ log' = [NoLog EXCEPT !.op = "isReviewed",
                            !.outcome = IF isReviewed(backend[1], now) THEN "true" ELSE "false"]
    /\ UNCHANGED <<backend, now, short, pc, filter, i, showAll, sortBy, t, move, ret,
                   imports, exts, edit>>

TimeNext == Pass \/ IsReviewedCall

TimeSpec == TimeInit /\ [][TimeNext]_vars

-----------------------------------------------------------------------------
(* Browsing: the user builds a filter at the shell, fetches, lists, sorts,  *)
(* toggles show-all, jumps and pages through the items; nothing is written. *)

\* the clock when the browsing starts: 30 days after the oldest stamp
BrowseNow == 30 * 24 * Hour

\* an open task, reviewed an hour before BrowseNow, whose urgency ties with Rec2
Rec3 == Task(<<"u", "3">>, "pending", Format(Hour), <<>>, Format(BrowseNow - Hour),
             Format(BrowseNow - Hour), PX, <<"n", "e", "w", "s">>, <<BLUE, AtAl>>, 9)
\* an open task of low urgency
Rec4 == Task(<<"u", "4">>, "pending", Format(2 * Hour), <<>>, Format(2 * Hour), <<>>, PX,
             <<"o", "l", "d">>, <<GREEN, AtAl>>, 1)
\* a task completed exactly one week before BrowseNow
Done1 == Task(<<"u", "5">>, "completed", Format(0), Format(BrowseNow - Week),
              Format(BrowseNow - Week), <<>>, PX, <<"n", "e", "w">>, <<GREEN, AtBo>>, 0)
\* a task completed ten days before BrowseNow, reviewed by this user
Done2 == Task(<<"u", "6">>, "completed", Format(0), Format(BrowseNow - 10 * 24 * Hour),
              Format(BrowseNow - 10 * 24 * Hour), <<>>, PX, <<"d", "o", "c">>,
              <<RED, reviewTag>>, 0)
\* a task deleted a day before BrowseNow
Gone == Task(<<"u", "7">>, "deleted", Format(0), Format(BrowseNow - 24 * Hour),
             Format(BrowseNow - 24 * Hour), <<>>, PX, <<"n", "e", "w">>, <<AtAl, WIP>>, 0)

BrowseBackend == <<Rec1, Rec2, Rec3, Rec4, Done1, Done2, Gone>>

BrowseInit ==
    /\ backend = BrowseBackend
    /\ now \in {BrowseNow - 1, BrowseNow}
    /\ short = EmptyShortcuts
    /\ pc = "start"
    /\ filter \in CmdFilters
    /\ tasks = <<>>
    /\ i = 0
    /\ showAll = FALSE
    /\ sortBy = "URGENCY"
    /\ t = NoTask
    /\ move = 0
    /\ ret = "none"
    /\ imports = 0
    /\ exts = 0
    /\ edit = NoEdit
    /\ log = NoLog

BrowseNext ==
    \/ Startup
    \/ ShellEnter \/ ShellQuit \/ ShellClear \/ ShellCompleted \/ ShellSearch
    \/ ShellAssigned \/ ShellProject \/ ShellTag \/ ShellOther
    \/ ListEnter \/ ListGoto \/ ListReview \/ ListToggleShowAll
    \/ ListSortUrgency \/ ListSortDate \/ ListSortColor \/ ListOther
    \/ EditBack \/ EditQuit \/ EditOther \/ Refresh

BrowseSpec == BrowseInit /\ [][BrowseNext]_vars

-----------------------------------------------------------------------------
(* Deleting: the user pages through the items and marks some deleted, then   *)
(* fetches again under filters with and without "_end"; no other client      *)
(* writes, so no import meets a conflict.                                    *)

DeleteNext ==
    \/ Startup
    \/ ShellEnter \/ ShellClear \/ ShellCompleted \/ ShellProject
    \/ ListEnter \/ ListReview
    \/ EditBack \/ EditDelete \/ EditOther
    \/ GuardRead \/ ImportStep \/ Refresh

DeleteSpec == Init /\ [][DeleteNext]_vars

-----------------------------------------------------------------------------
(* Mapping: main loads the persisted registry and generateMappings fills it, *)
(* one AutoAssign or BestEffortAssign call at a time; the user then quits    *)
(* and the registry is persisted.                                            *)

\* an open task whose project, assignee and tag are spelled with characters
\* that the tasks listed before it have taken; it also carries an empty tag
Rec5 == Task(<<"u", "8">>, "pending", Format(0), <<>>, Format(0), <<>>, <<"p">>,
             <<"d", "u", "p">>, << <<"@", "a">>, <<"w">>, <<>> >>, 0)

\* a registry as keys.ParseConfig may load it: bindings left by an earlier
\* vocabulary and an earlier set of built-in keys, one value to a character
Stale ==
    [EmptyShortcuts EXCEPT !["project"] = ("p" :> <<"o", "l", "d">>),
                           !["user"] = ("a" :> <<"a", "n", "n">>),
                           !["color"] = ("r" :> GREEN),
                           !["help"] = ("q" :> "search"),
                           !["task"] = ("e" :> "quit") @@ ("a" :> "back"),
                           !["tasks"] = ("f" :> "goto")]

\* the calls generateMappings makes on the registry, in order, each
\* <<ch, val, label>>: ch is "" for AutoAssign(val, label) and the preferred
\* character for BestEffortAssign(ch, val, label)
MappingCalls(tks) ==
    LET RECURSIVE OfTags(_)
        OfTags(tags) ==
            IF tags = <<>> THEN <<>>
            ELSE LET tg == Head(tags)
                 IN  (IF Len(tg) = 0 THEN <<>>
                      ELSE IF isNormalTag(tg) THEN << <<"", tg, "tag">> >>
                      ELSE IF tg[1] = "@" THEN << <<"", Tail(tg), "user">> >>
                      ELSE <<>>) \o OfTags(Tail(tags))
        RECURSIVE OfTasks(_)
        OfTasks(l) ==
            IF l = <<>> THEN <<>>
            ELSE LET tk == Head(l)
                 IN  (IF Len(tk.Completed) > 0 \/ tk.Status = "deleted" THEN <<>>
                      ELSE << <<"", tk.Project, "project">> >> \o OfTags(tk.Tags))
                     \o OfTasks(Tail(l))
    IN  OfTasks(tks) \o Builtins

\* the store is one of two vocabularies; the registry loaded is empty, or
\* stale, or the one an earlier run over the same store persisted
KeysInit ==
    /\ backend \in {InitBackend, Append(BrowseBackend, Rec5)}
    /\ now = BrowseNow
    /\ short \in {EmptyShortcuts, Stale}
                 \cup {generateMappings(base, r.tasks) :
                          base \in {EmptyShortcuts, Stale},
                          r \in getTasks(<<>>, TRUE, backend, FALSE, BrowseNow, "URGENCY")}
    /\ pc = "start"
    /\ filter = <<>>
    /\ tasks = <<>>
    /\ i = 0
    /\ showAll = FALSE
    /\ sortBy = "URGENCY"
    /\ t = NoTask
    /\ move = 0
    /\ ret = "none"
    /\ imports = 0
    /\ exts = 0
    /\ edit = NoEdit
    /\ log = NoLog

\* generateMappings: getTasks(""); log.before keeps the registry as loaded
MapFetch ==
    /\ pc = "start"
    /\ \E res \in Fetch(<<>>) :
          IF res.err # "nil" THEN Fatal /\ log' = NoLog
          ELSE /\ Proc("mapping", filter, res.tasks, 0, NoTask, 0, "none", NoEdit)
               /\ log' = [NoLog EXCEPT !.op = "loaded", !.before = short]
    /\ UNCHANGED <<backend, now, short, showAll, sortBy, imports, exts>>

\* call number i + 1 of generateMappings has been made; after the last one main
\* enters its loop
MapStep(call, registry) ==
    /\ short' = registry
    /\ log' = [log EXCEPT !.op = IF call[1] = "" THEN "auto" ELSE "best", !.args = call]
    /\ IF i + 1 < Len(MappingCalls(tasks))
       THEN Proc("mapping", filter, tasks, i + 1, NoTask, 0, "none", NoEdit)
       ELSE Proc("shell", filter, <<>>, 0, NoTask, 0, "none", NoEdit)
    /\ UNCHANGED <<backend, now, showAll, sortBy, imports, exts>>

\* generateMappings: a call short.AutoAssign(val, label)
MapAuto ==
    /\ pc = "mapping"
    /\ LET call == MappingCalls(tasks)[i + 1]
       IN  call[1] = "" /\ MapStep(call, AutoAssign(short, call[2], call[3]))

\* generateMappings: a call short.BestEffortAssign(ch, val, label)
MapBestEffort ==
    /\ pc = "mapping"
    /\ LET call == MappingCalls(tasks)[i + 1]
       IN  call[1] # "" /\ MapStep(call, BestEffortAssign(short, call[1], call[2], call[3]))

KeysNext == MapFetch \/ MapAuto \/ MapBestEffort \/ ShellQuit \/ ShellOther

KeysSpec == KeysInit /\ [][KeysNext]_vars

-----------------------------------------------------------------------------
(* Properties of doImport's guard                                          *)

\* C1: a call of doImport on a task with a uuid, made while the backend holds
\* a record for that uuid whose last-modified stamp differs from the stamp the
\* task carries, does not go on to the import, whatever the record's status.
C1_MismatchStopsImport ==
    (log.op = "guard" /\ log.stored # {} /\ log.captured \notin log.stored)
        => log.outcome # "import"

\* C2: an import for a uuid the backend holds is applied only while the
\* backend's stamp for that uuid equals the stamp the task carries: no write of
\* another client is overwritten.
C2_NoLostUpdate ==
    (log.op = "import" /\ log.stored # {}) => log.stored = {log.captured}

\* C3: after a conflict doImport reads one key and returns without an import:
\* the task in hand is dropped, nothing is written, and in the review loop the
\* next step of the process is the refresh, which puts the backend's current
\* record at the current index of the working set.
C3_ConflictDiscardsEdit ==
    [][ /\ pc = "ack" =>
              /\ log'.op = "ack" /\ log'.keys = 1
              /\ imports' = imports /\ backend' = backend
              /\ t' = NoTask
              /\ pc' \in {"refresh", "fix", "shell"}
              /\ ret = "review" => (pc' = "refresh" /\ tasks' = tasks /\ i' = i)
        /\ (pc = "refresh" /\ pc' = "editing") =>
              tasks' = [tasks EXCEPT ![i + 1] = backend[IndexOf(tasks[i + 1].Uuid)]]
      ]_vars

\* a conflict was acknowledged and the refresh brought the other client's
\* change into the working set
C3_Witness ==
    /\ log.op = "refresh" /\ log.outcome = "conflict"
    /\ pc = "editing"
    /\ tasks[i + 1].Description = <<"e", "x", "t">>
    /\ tasks[i + 1] = backend[IndexOf(tasks[i + 1].Uuid)]
    /\ imports = 0

\* C4: when the guard's getTasks(t.Uuid) returns more than one task, the
\* process ends in log.Fatalf and the store is as it was before the call: no
\* import has been issued for the task.
C4_DuplicateIsFatal ==
    (log.op = "guard" /\ log.n > 1)
        => (pc = "fatal" /\ log.outcome = "fatal" /\ imports = log.imports)

\* the guard has found two records under the uuid of the task in hand
C4_Witness == log.op = "guard" /\ log.n = 2 /\ Cardinality(log.stored) = 2 /\ pc = "fatal"

-----------------------------------------------------------------------------
(* Properties of the editing methods                                       *)

\* the task a caller has handed to doImport
Submitted == pc \in {"guard", "ack", "import"}

\* C5: with a store whose tasks each carry at most one color tag and at most
\* one "@" tag, every task handed to doImport (by an editing method, by the fix
\* loop or by "new"), after any sequence of accepted writes, carries at most
\* one color tag and at most one "@" tag.
C5_OneColorOneAssignee ==
    Submitted => (AtMostOne(t.Tags, IsColor) /\ AtMostOne(t.Tags, HasAtPrefix))

\* after an accepted write, a colored task is handed over with another color
C5_Witness ==
    /\ Submitted /\ imports >= 1
    /\ edit.op = "color"
    /\ Len(colorTag(edit.src)) > 0 /\ Len(colorTag(t)) > 0
    /\ colorTag(t) # colorTag(edit.src)

\* C6: editAssigned with a bound key hands over a task that carries "@" and the
\* chosen name, carries no other tag that starts with "@", and keeps the other
\* tags of the task it was called on, in their order; no other field changes.
C6_AssigneeReplaced ==
    (Submitted /\ edit.op = "assigned") =>
        LET want == <<"@">> \o edit.choice
            NotAt(tag) == ~HasAtPrefix(tag)
        IN  /\ \E k \in DOMAIN t.Tags : t.Tags[k] = want
            /\ \A k \in DOMAIN t.Tags : HasAtPrefix(t.Tags[k]) => t.Tags[k] = want
            /\ SelectSeq(t.Tags, NotAt) = SelectSeq(edit.src.Tags, NotAt)
            /\ [t EXCEPT !.Tags = edit.src.Tags] = edit.src

\* a task of @al that carries other tags is handed over with choice bo
C6_Witness ==
    /\ Submitted /\ edit.op = "assigned"
    /\ userTag(edit.src) = AtAl /\ edit.choice = <<"b", "o">>
    /\ Len(edit.src.Tags) > 1
    /\ userTag(t) = AtBo

\* C7: editTags with a bound key hands over the tags of the task it was called
\* on plus the chosen tag when the task lacked it, minus the chosen tag when
\* the task had it, every other tag kept in place; and editTags with the same
\* key on the task as the backend stores it after that write hands over the
\* tag set the first call started from.
C7_ToggleOneTag ==
    (Submitted /\ edit.op = "tags") =>
        LET c == edit.choice
            old == edit.src.Tags
            Other(tag) == tag # c
            keys == {ch \in DOMAIN short["tag"] : short["tag"][ch] = c}
            again(ch) == editTags(Stored(t, edit.src, now + TicksPerSec), ch)
        IN  /\ Range(t.Tags) = IF c \in Range(old) THEN Range(old) \ {c}
                                                   ELSE Range(old) \cup {c}
            /\ SelectSeq(t.Tags, Other) = SelectSeq(old, Other)
            /\ Len(SelectSeq(t.Tags, Other)) + (IF c \in Range(old) THEN 0 ELSE 1) = Len(t.Tags)
            /\ [t EXCEPT !.Tags = old] = edit.src
            /\ keys # {}
            /\ \A ch \in keys : again(ch).call /\ Range(again(ch).t.Tags) = Range(old)

\* the second toggle of wip on task u2, which lacked it: the first toggle was
\* written and read back, and the task handed over has the tags u2 started with
C7_Witness ==
    /\ Submitted /\ edit.op = "tags" /\ edit.choice = WIP
    /\ imports = 1 /\ t.Uuid = Rec2.Uuid
    /\ WIP \in Range(edit.src.Tags)
    /\ Range(t.Tags) = Range(Rec2.Tags)

-----------------------------------------------------------------------------
(* Properties of the review marker                                         *)

\* C8: for an open task with reviewed marker T, isReviewed answers true at
\* every time from T up to, not including, T + 24 hours, and false at T + 24
\* hours and at every later time.
C8_ReviewWindow ==
    log.op = "isReviewed" =>
        LET T == Parse(backend[1].Reviewed)
            day == 24 * 3600 * TicksPerSec
        IN  /\ Len(backend[1].Completed) = 0
            /\ (T <= now /\ now < T + day) => (log.outcome = "true" /\ tasks = <<>>)
            /\ now >= T + day => (log.outcome = "false" /\ tasks = backend)

\* isReviewed is asked exactly 24 hours after the marker and answers false
C8_Witness ==
    /\ log.op = "isReviewed" /\ log.outcome = "false"
    /\ now = Parse(backend[1].Reviewed) + 24 * 3600 * TicksPerSec
    /\ tasks = backend

\* C9: markReviewed on a task that isReviewed rejects hands one task to
\* doImport: the task with its reviewed marker set to the current time when it
\* has no completion stamp, with the reviewer tag added when it has one.  The
\* task handed over, and the task the backend holds once the import is done,
\* pass isReviewed (a completed one at any later time).  On a task that
\* isReviewed accepts, markReviewed returns without calling doImport: no guard
\* read, no import, the task in the working set as it was.
C9_MarkReviewed ==
    edit.op = "reviewed" =>
        LET src == edit.src
            open == Len(src.Completed) = 0
            want == IF open THEN [src EXCEPT !.Reviewed = Format(edit.at)]
                            ELSE [src EXCEPT !.Tags = Append(@, reviewTag)]
            Later == {now, now + ReviewWindow, now + 100 * ReviewWindow}
        IN  IF isReviewed(src, edit.at)
            THEN /\ ~edit.call
                 /\ pc = "refresh" /\ log = NoLog /\ t = NoTask
                 /\ tasks[i + 1] = src
            ELSE /\ edit.call
                 /\ pc \in {"guard", "ack", "import", "refresh"}
                 /\ Submitted =>
                       /\ t = want
                       /\ isReviewed(t, now)
                       /\ ~open => \A nw \in Later : isReviewed(t, nw)
                 /\ (pc = "refresh" /\ log.op = "import") =>
                       LET w == backend[IndexOf(src.Uuid)]
                       IN  /\ imports = log.imports + 1
                           /\ w = Stored(want, src, now)
                           /\ isReviewed(w, now)
                           /\ ~open => \A nw \in Later : isReviewed(w, nw)

\* a completed task has been marked reviewed and the import is done
C9_Witness ==
    /\ edit.op = "reviewed" /\ edit.call
    /\ pc = "refresh" /\ log.op = "import"
    /\ edit.src.Status = "completed" /\ Len(edit.src.Completed) > 0
    /\ reviewTag \in Range(backend[IndexOf(edit.src.Uuid)].Tags)

\* C10: the key "disputed" on a task without the dispute tag hands over the
\* task with the dispute tag appended, so that it carries the tag once; on a
\* task that carries the tag it returns without calling doImport: no guard
\* read, no import, the tags as they were.
C10_DisputedSetOnce ==
    edit.op = "disputed" =>
        LET src == edit.src
            IsDispute(tag) == tag = kDisputed
        IN  IF isDisputed(src)
            THEN /\ ~edit.call
                 /\ pc = "refresh" /\ log = NoLog /\ t = NoTask
                 /\ tasks[i + 1] = src
            ELSE /\ edit.call
                 /\ pc \in {"guard", "ack", "import", "refresh"}
                 /\ Submitted =>
                       /\ t = [src EXCEPT !.Tags = Append(@, kDisputed)]
                       /\ Len(SelectSeq(t.Tags, IsDispute)) = 1
                 /\ (pc = "refresh" /\ log.op = "import") =>
                       /\ imports = log.imports + 1
                       /\ Len(SelectSeq(backend[IndexOf(src.Uuid)].Tags, IsDispute)) = 1

\* the key "disputed" on a task that an earlier, accepted "disputed" has tagged
C10_Witness ==
    /\ edit.op = "disputed" /\ ~edit.call
    /\ isDisputed(edit.src) /\ isDisputed(backend[IndexOf(edit.src.Uuid)])
    /\ pc = "refresh" /\ imports = 1

-----------------------------------------------------------------------------
(* Properties of the fetch                                                  *)

END == <<"_", "e", "n", "d">>

\* a and b hold the same items, each as often
SameItems(a, b) ==
    /\ Len(a) = Len(b)
    /\ \A x \in Range(a) \cup Range(b) :
          Cardinality({k \in DOMAIN a : a[k] = x}) = Cardinality({k \in DOMAIN b : b[k] = x})

\* C11: a fetch that returns without error returns exactly the records of the
\* backend that match the tokens of the filter other than "_end" and that are
\* not deleted and, with no "_end" token, carry no completion stamp, or, with
\* N >= 1 "_end" tokens, carry a completion stamp less than N weeks before now;
\* the export command is given the filter's tokens without the "_end" tokens.
C11_FetchContract ==
    (log.op = "fetch" /\ log.outcome = "nil") =>
        LET toks == Split(filter)
            IsEnd(arg) == arg = END
            NotEnd(arg) == arg # END
            N == Len(SelectSeq(toks, IsEnd))
            passed == SelectSeq(toks, NotEnd)
            Wanted(rec) ==
                /\ MatchesAll(rec, passed)
                /\ rec.Status # "deleted"
                /\ N = 0 => rec.Completed = <<>>
                /\ N >= 1 => (rec.Completed # <<>> /\ now - Parse(rec.Completed) < N * Week)
        IN  /\ SameItems(log.got, SelectSeq(backend, Wanted))
            /\ log.args = Append(passed, <<"e", "x", "p", "o", "r", "t">>)
            /\ \A k \in DOMAIN log.args : log.args[k] # END

\* a fetch with two "_end" tokens, exactly 30 days in: it returns the task completed
\* a week ago and the one completed ten days ago, no open task, not the deleted one
C11_Witness ==
    /\ log.op = "fetch" /\ log.outcome = "nil"
    /\ filter = END \o <<" ">> \o END
    /\ now = BrowseNow
    /\ Range(log.got) = {Done1, Done2}

\* every record the backend holds under the uuid is deleted
Deleted(uuid) ==
    /\ \E k \in DOMAIN backend : backend[k].Uuid = uuid
    /\ \A k \in DOMAIN backend : backend[k].Uuid = uuid => backend[k].Status = "deleted"

\* C12: a fetch returns no task whose uuid the backend holds as deleted, under
\* filters with and without "_end" tokens, and doImport's own fetch by uuid
\* finds no task for such a uuid: once the import of a mark-deleted edit is
\* done, the task is in no fetch of the process while it stays deleted.
C12_DeletedNotFetched ==
    /\ (log.op = "fetch" /\ log.outcome = "nil") =>
           \A k \in DOMAIN log.got :
               /\ ~Deleted(log.got[k].Uuid)
               /\ log.got[k].Status # "deleted"
    /\ pc = "listing" => \A k \in DOMAIN tasks : ~Deleted(tasks[k].Uuid)
    /\ (log.op = "guard" /\ pc # "fatal" /\ Deleted(t.Uuid)) => log.n = 0

\* task u1 was marked deleted and the import is done; a later fetch asks for
\* the tasks of the project completed within a week, and returns none
C12_Witness ==
    /\ log.op = "fetch" /\ log.outcome = "nil"
    /\ imports >= 1 /\ Deleted(Rec1.Uuid)
    /\ \E k \in DOMAIN log.args : log.args[k] \in CmdFilters
    /\ Completed(filter) = 1
    /\ now - Parse(backend[IndexOf(Rec1.Uuid)].Completed) < Week
    /\ log.got = <<>>

-----------------------------------------------------------------------------
(* Properties of the sort                                                   *)

\* the urgencies of a working set, in its order
Urgencies(s) == [k \in DOMAIN s |-> s[k].Urgency]

\* C13: a sort in urgency mode, on demand or at the end of a fetch, leaves the
\* items it was given, each as often, with urgencies that do not increase from
\* first to last (urgencies <<5, 9, 1>> come out as <<9, 5, 1>>).
C13_UrgencyDescending ==
    /\ (log.op = "sort" /\ sortBy = "URGENCY") =>
           /\ SameItems(log.got, log.before)
           /\ tasks = log.got
           /\ \A k, l \in DOMAIN log.got : k < l => log.got[k].Urgency >= log.got[l].Urgency
           /\ Urgencies(log.before) = <<5, 9, 1>> => Urgencies(log.got) = <<9, 5, 1>>
    /\ (log.op = "fetch" /\ log.outcome = "nil" /\ sortBy = "URGENCY") =>
           \A k, l \in DOMAIN log.got : k < l => log.got[k].Urgency >= log.got[l].Urgency

\* a working set with urgencies <<5, 9, 1>> has been sorted by urgency
C13_Witness ==
    /\ log.op = "sort" /\ sortBy = "URGENCY" /\ pc = "listing"
    /\ Urgencies(log.before) = <<5, 9, 1>>
    /\ Urgencies(tasks) = <<9, 5, 1>>

\* the rank red < blue < green < (no color)
ColorRank(tk) ==
    LET c == colorTag(tk)
    IN  IF c = RED THEN 0 ELSE IF c = BLUE THEN 1 ELSE IF c = GREEN THEN 2 ELSE 3

\* C14: a sort in color mode, on demand or at the end of a fetch, leaves the
\* items in ascending order of the rank red < blue < green < (no color): every
\* red item before every blue one, every blue before every green, and every
\* item with no color tag after all colored items.
C14_ColorAscending ==
    ((log.op = "sort" \/ (log.op = "fetch" /\ log.outcome = "nil")) /\ sortBy = "COLOR") =>
        \A k, l \in DOMAIN log.got : k < l => ColorRank(log.got[k]) <= ColorRank(log.got[l])

-----------------------------------------------------------------------------
(* Properties of the paging                                                 *)

ContentOps == {"description", "assigned", "project", "color", "tags"}
MarkOps == {"reviewed", "done", "delete", "disputed"}

\* a key of the item editor has been handled and the refresh has not yet run
Handled == pc \in {"guard", "ack", "import", "refresh"} /\ edit.op \in ContentOps \cup MarkOps \cup {"other"}

\* C15 as claimed: every content edit, every mark action and an unrecognized
\* key yield step +1, so that the item shown next is the one at index i + 1.
C15_AllAdvance == Handled => move = 1

\* C15 as the code has it: a content edit (description, assignee, project,
\* color, tag), made or not, yields step 0, and the item shown next is the one
\* at index i again, read back from the backend; a mark action (reviewed,
\* done, deleted, disputed) and an unrecognized key yield step +1, and the item
\* shown next is the one at index i + 1, or the loop ends when there is none.
C15_StepDeltas ==
    [][ /\ Handled' =>
              /\ edit'.op \in ContentOps => move' = 0
              /\ edit'.op \in MarkOps \cup {"other"} => move' = 1
              /\ pc # "editing" => (move' = move /\ i' = i)
        /\ (pc = "refresh" /\ Handled /\ pc' # "fatal") =>
              IF i + move < Len(tasks)
              THEN /\ pc' = "editing" /\ i' = i + move
                   /\ Len(tasks') = Len(tasks)
                   /\ tasks'[i + 1] = backend[IndexOf(tasks[i + 1].Uuid)]
              ELSE pc' = "shell"
      ]_vars

\* the description of an item has been set and imported, and the editor shows
\* the same item again, as the backend now holds it
C15_Witness ==
    /\ pc = "editing" /\ log.op = "refresh" /\ imports = 1
    /\ tasks[i + 1].Description = <<"n", "e", "w">>
    /\ tasks[i + 1].Modified = Format(now)
    /\ tasks[i + 1] = backend[IndexOf(tasks[i + 1].Uuid)]

\* working set new is working set old, but for the tags of its entry k
SameButTags(new, old, k) ==
    /\ Len(new) = Len(old)
    /\ \A j \in DOMAIN old :
          IF j = k THEN [new[j] EXCEPT !.Tags = old[j].Tags] = old[j] ELSE new[j] = old[j]

\* C16: from the key of an editing or mark action to the refresh, the index
\* and every entry at another index stay as they were, and the entry at index
\* i stays the same item (the methods that filter the tags may have rewritten
\* its tags in place); the refresh then replaces the entry at index i by the
\* one record the backend holds at that moment under the entry's uuid,
\* last-modified stamp included, and leaves every other entry as it was,
\* before the editor reads its next key.
C16_RefreshInPlace ==
    [][ /\ (Handled' /\ edit'.op # "other") =>
              /\ SameButTags(tasks', tasks, i + 1) /\ i' = i
              /\ [tasks'[i' + 1] EXCEPT !.Tags = edit'.src.Tags] = edit'.src
              /\ edit'.op \in MarkOps \cup {"description", "project"} =>
                    tasks'[i' + 1] = edit'.src
        /\ (pc = "refresh" /\ edit.op \in ContentOps \cup MarkOps /\ pc' = "editing") =>
              LET held == {k \in DOMAIN backend : backend[k].Uuid = tasks[i + 1].Uuid}
              IN  /\ Cardinality(held) = 1
                  /\ Len(tasks') = Len(tasks)
                  /\ \A k \in DOMAIN tasks :
                        tasks'[k] = IF k = i + 1 THEN backend[CHOOSE h \in held : TRUE]
                                                ELSE tasks[k]
                  /\ backend' = backend
      ]_vars

\* an edit of this process was imported, another client then wrote the same
\* task, and the refresh put that client's record at the index
C16_Witness ==
    /\ pc = "editing" /\ log.op = "refresh"
    /\ imports = 1 /\ exts = 1
    /\ tasks[i + 1].Description = <<"e", "x", "t">>
    /\ tasks[i + 1].Modified = Format(now)
    /\ WIP \in Range(tasks[i + 1].Tags) /\ tasks[i + 1].Uuid = Rec2.Uuid

\* C17: the editor shows an item only at an index inside the working set; after
\* a key is handled and the entry refreshed, the loop goes on exactly when the
\* new index i + move lies in [0, length), and otherwise ends and runShell
\* returns.  The key "quit" calls no edit, yields move = length and ends the loop
\* at the refresh that follows, from every index.  A step with move +1 that
\* does not end the loop lowers length - i by exactly one, so from index i at
\* most length - i such steps are taken before the loop ends.
C17_LoopEnds ==
    [][ /\ pc' = "editing" => (0 <= i' /\ i' < Len(tasks'))
        /\ (pc = "editing" /\ edit'.op = "quit") =>
              (pc' = "refresh" /\ move' = Len(tasks) /\ tasks' = tasks /\ i' = i)
        /\ (pc = "refresh" /\ pc' # "fatal") =>
              /\ (pc' = "editing") <=> (0 <= i + move /\ i + move < Len(tasks))
              /\ pc' # "editing" => (pc' = "shell" /\ tasks' = <<>> /\ filter' = filter)
              /\ edit.op = "quit" => pc' = "shell"
              /\ (move = 1 /\ pc' = "editing") =>
                    (Len(tasks') - i' = Len(tasks) - i - 1 /\ Len(tasks') - i' >= 1)
      ]_vars

\* "quit" was pressed at the second of three items: the refresh is about to end the loop
C17_Witness ==
    /\ pc = "refresh" /\ edit.op = "quit"
    /\ Len(tasks) = 3 /\ i = 1 /\ move = 3

-----------------------------------------------------------------------------
(* Properties of the listing                                                *)

\* the integer typed at "Jump to: ": [ok, val]
Typed(line) == Atoi(SubSeq(line, 1, Len(line) - 1))

\* the line typed is an integer inside the working set
JumpInRange(line, tks) == Typed(line).ok /\ 0 <= Typed(line).val /\ Typed(line).val < Len(tks)

\* C18 as claimed: a jump to an integer n in [0, length) enters Editing(n); a
\* jump to an integer out of range, or a line that is no integer, edits no item,
\* calls the backend not at all and leaves the session in the listing, on the
\* same working set.
C18_BadJumpStaysInListing ==
    [][ log'.op = "goto" =>
          /\ backend' = backend /\ imports' = imports
          /\ IF JumpInRange(log'.line, tasks)
             THEN pc' = "editing" /\ i' = Typed(log'.line).val /\ tasks' = tasks
             ELSE pc' = "listing" /\ tasks' = tasks
      ]_vars

\* C18 as the code has it: a jump to an integer n in [0, length) enters
\* Editing(n) on the same working set; a jump to an integer out of range, or a
\* line that is no integer, edits no item and calls the backend not at all, and
\* showAndReviewTasks returns: the session is back at the shell prompt with its
\* filter unchanged and the working set dropped.
C18_BadJumpReturnsToShell ==
    [][ log'.op = "goto" =>
          /\ pc = "listing"
          /\ backend' = backend /\ imports' = imports /\ now' = now
          /\ filter' = filter /\ showAll' = showAll /\ sortBy' = sortBy
          /\ IF JumpInRange(log'.line, tasks)
             THEN pc' = "editing" /\ i' = Typed(log'.line).val /\ tasks' = tasks
             ELSE pc' = "shell" /\ tasks' = <<>> /\ edit' = NoEdit /\ t' = NoTask
      ]_vars

\* a jump to 7, past the end of the working set: the session is at the shell prompt
C18_Witness ==
    /\ log.op = "goto" /\ log.line = <<"7", "\n">>
    /\ pc = "shell" /\ tasks = <<>>
    /\ showAll /\ filter \in CmdFilters

\* C19 as claimed: the key "back" in Editing(i) leads to Editing(i - 1) when
\* i > 0, and in Editing(0) back to the listing of the same working set.
C19_BackToListing ==
    [][ (pc = "refresh" /\ edit.op = "back" /\ pc' # "fatal") =>
          IF i > 0 THEN pc' = "editing" /\ i' = i - 1
          ELSE pc' = "listing" /\ Len(tasks') = Len(tasks)
      ]_vars

\* C19 as the code has it: the key "back" calls no edit and yields step -1; after
\* the refresh the editor shows the item at index i - 1 of the same working set
\* when i > 0; in Editing(0) the loop ends and showAndReviewTasks returns, as
\* after "quit": the session is back at the shell prompt with its filter
\* unchanged and the working set dropped.
C19_BackFromFirstEndsLoop ==
    [][ /\ (pc = "editing" /\ edit'.op = "back") =>
              (pc' = "refresh" /\ move' = -1 /\ ~edit'.call /\ tasks' = tasks /\ i' = i)
        /\ (pc = "refresh" /\ edit.op = "back" /\ pc' # "fatal") =>
              IF i > 0
              THEN /\ pc' = "editing" /\ i' = i - 1
                   /\ Len(tasks') = Len(tasks)
                   /\ \A k \in DOMAIN tasks : k # i + 1 => tasks'[k] = tasks[k]
              ELSE /\ pc' = "shell" /\ tasks' = <<>> /\ filter' = filter
                   /\ backend' = backend
      ]_vars

\* "back" was pressed on the first of four items: the refresh is about to end the loop
C19_Witness ==
    /\ pc = "refresh" /\ edit.op = "back"
    /\ i = 0 /\ move = -1 /\ Len(tasks) = 4

\* C20 as claimed: the key "toggle show all" flips the flag and shows the
\* listing again for the same fetched items, with the reviewed items in it if
\* and only if the flag is now set.
C20_ToggleRerenders ==
    [][ showAll' # showAll =>
          /\ showAll' = ~showAll
          /\ pc' = "listing"
          /\ showAll' => Len(tasks') >= Len(tasks)
          /\ ~showAll' => \A k \in DOMAIN tasks' : ~isReviewed(tasks'[k], now)
      ]_vars

\* C20 as the code has it: the key "toggle show all" flips the flag and
\* showAndReviewTasks returns: the session is back at the shell prompt with its
\* filter unchanged, the working set dropped and no backend call made.  The flag
\* acts on the next fetch: the listing that Enter opens holds every fetched task
\* when the flag is set, and the fetched tasks that are not reviewed otherwise.
C20_ToggleActsOnNextFetch ==
    [][ /\ showAll' # showAll =>
              /\ pc = "listing" /\ showAll' = ~showAll
              /\ pc' = "shell" /\ tasks' = <<>> /\ filter' = filter
              /\ backend' = backend /\ sortBy' = sortBy
        /\ (log'.op = "fetch" /\ pc' = "listing") =>
              LET Fresh(tk) == ~isReviewed(tk, now)
              IN  tasks' = IF showAll THEN log'.got ELSE SelectSeq(log'.got, Fresh)
      ]_vars

\* after a toggle the next fetch lists the task reviewed an hour ago
C20_Witness ==
    /\ pc = "listing" /\ log.op = "fetch" /\ showAll
    /\ Rec3 \in Range(tasks) /\ isReviewed(Rec3, now)
    /\ tasks = log.got

-----------------------------------------------------------------------------
(* Properties of the listing's commands on the working set                  *)

\* C21: a sort key in the listing sets the global sort mode, leaves the working
\* set a permutation of the one before (same length, same items, each as
\* often) with no inversion under the new mode, and shows the listing again;
\* no backend call is made: the backend, the clock and the filter are as they
\* were, and no task is fetched or imported.
C21_SortInMemory ==
    [][ log'.op = "sort" =>
          /\ pc = "listing" /\ pc' = "listing"
          /\ log'.before = tasks /\ log'.got = tasks'
          /\ SameItems(tasks', tasks)
          /\ sortBy' \in {"URGENCY", "DATE", "COLOR"}
          /\ \A k, l \in DOMAIN tasks' : k < l => ~Less(tasks'[l], tasks'[k], sortBy')
          /\ backend' = backend /\ now' = now /\ imports' = imports
          /\ filter' = filter /\ showAll' = showAll /\ short' = short
      ]_vars

\* a working set of four, fetched in urgency order, has been sorted by date
\* into another order, and the listing is shown
C21_Witness ==
    /\ log.op = "sort" /\ sortBy = "DATE" /\ pc = "listing"
    /\ Len(tasks) = 4 /\ tasks # log.before
    /\ Urgencies(log.before) = <<9, 9, 5, 1>>
    /\ tasks[1] = Rec4

\* C22: the fix loop goes through the working set from the first item to the
\* last, once.  For an item that carries no color tag it calls doImport once,
\* on that item with the tag green appended, and the call starts with the
\* guard's read; for an item that carries a color tag it calls nothing.  No
\* import is issued but from the guard, and when doImport returns the loop is
\* at the next item.  After the last item the listing is shown again.
C22_FixColorsUncolored ==
    [][ /\ (pc = "listing" /\ pc' = "fix") => (i' = 0 /\ tasks' = tasks /\ backend' = backend)
        /\ pc = "fix" =>
              IF i >= Len(tasks)
              THEN pc' = "listing" /\ tasks' = tasks /\ backend' = backend /\ imports' = imports
              ELSE IF colorTag(tasks[i + 1]) = <<>>
              THEN /\ pc' = "guard" /\ ret' = "fix" /\ i' = i
                   /\ t' = [tasks[i + 1] EXCEPT !.Tags = Append(@, GREEN)]
                   /\ tasks' = [tasks EXCEPT ![i + 1] = t']
                   /\ imports' = imports
              ELSE /\ pc' = "fix" /\ i' = i + 1 /\ tasks' = tasks
                   /\ t' = NoTask /\ imports' = imports /\ backend' = backend
        /\ (ret = "fix" /\ pc \in {"guard", "ack", "import"} /\ pc' # "fatal") =>
              /\ pc = "guard" => (pc' \in {"import", "ack"} /\ t' = t /\ i' = i /\ imports' = imports)
              /\ pc = "import" =>
                    /\ log.op = "guard" /\ imports' = imports + 1
                    /\ backend'[IndexOf(t.Uuid)] = Stored(t, backend[IndexOf(t.Uuid)], now')
              /\ pc \in {"import", "ack"} => (pc' = "fix" /\ i' = i + 1 /\ tasks' = tasks)
      ]_vars

\* the fix loop has run over the two open tasks of the project: the task
\* without a color was imported with green, the red one was left alone, and
\* the listing is shown with the working set the loop left
C22_Witness ==
    /\ pc = "listing" /\ imports = 1 /\ Len(tasks) = 2
    /\ tasks[1] = [Rec2 EXCEPT !.Tags = Append(@, GREEN)]
    /\ tasks[2] = Rec1
    /\ backend[IndexOf(Rec2.Uuid)].Tags = <<AtBo, GREEN>>
    /\ backend[IndexOf(Rec1.Uuid)] = Rec1

-----------------------------------------------------------------------------
(* Properties of the item editor's keys                                     *)

\* C23: a key with no binding in context "task" takes printInfo's default
\* case: the process does not end, no editing method and no doImport is called,
\* nothing is written to the backend and the working set is as it was, and the
\* step is +1; the refresh that follows writes nothing either, and the editor
\* then shows the item at index i + 1, or the loop ends when there is none.
C23_UnboundKeyAdvances ==
    [][ /\ (pc = "editing" /\ edit'.op = "other") =>
              /\ pc' = "refresh" /\ ~edit'.call /\ move' = 1
              /\ t' = NoTask /\ ret' = "none"
              /\ tasks' = tasks /\ i' = i
              /\ backend' = backend /\ imports' = imports
        /\ (pc = "refresh" /\ edit.op = "other") =>
              /\ backend' = backend /\ imports' = imports
              /\ pc' # "fatal" =>
                    IF i + 1 < Len(tasks)
                    THEN /\ pc' = "editing" /\ i' = i + 1
                         /\ Len(tasks') = Len(tasks)
                         /\ \A k \in DOMAIN tasks : k # i + 1 => tasks'[k] = tasks[k]
                         /\ tasks'[i + 1].Uuid = tasks[i + 1].Uuid
                    ELSE pc' = "shell"
      ]_vars

\* an unbound key was pressed on the first of two items, nothing was written,
\* and the refresh is about to move the editor to the second
C23_Witness ==
    /\ pc = "refresh" /\ edit.op = "other" /\ ~edit.call
    /\ i = 0 /\ move = 1 /\ Len(tasks) = 2
    /\ imports = 0 /\ backend = InitBackend

-----------------------------------------------------------------------------
(* Properties of the keybinding registry                                    *)

\* the characters bound to val in one context of registry sc
KeysOf(sc, label, val) == {c \in DOMAIN sc[label] : sc[label][c] = val}

\* C24: every AutoAssign and BestEffortAssign call of generateMappings, over
\* either vocabulary and from each loaded registry, leaves every character
\* that was bound in a context bound to the value it had: a call binds at most
\* one character, one that was free in the call's context, to the call's
\* value, and touches no other context.  So no character of a context ever
\* resolves to two values, while a character may be bound in several contexts.
\* The registry main's loop starts with is the one generateMappings computes.
C24_NoCollision ==
    [][ /\ log'.op \in {"auto", "best"} =>
              LET val == log'.args[2]
                  label == log'.args[3]
                  added == DOMAIN short'[label] \ DOMAIN short[label]
              IN  /\ \A l \in Contexts : \A c \in DOMAIN short[l] :
                        c \in DOMAIN short'[l] /\ short'[l][c] = short[l][c]
                  /\ \A l \in Contexts \ {label} : DOMAIN short'[l] = DOMAIN short[l]
                  /\ Cardinality(added) <= 1
                  /\ \A c \in added : short'[label][c] = val
        /\ (pc = "mapping" /\ pc' = "shell") => short' = generateMappings(log.before, tasks)
      ]_vars

\* the stale registry was loaded and filled: its bindings stand, the built-in
\* actions whose preferred keys were taken sit on other keys, and the key "a"
\* is bound in four contexts to four values
C24_Witness ==
    /\ pc = "shell" /\ log.op = "best" /\ log.before = Stale
    /\ short["task"]["e"] = "quit" /\ short["help"]["q"] = "search"
    /\ KeysOf(short, "task", "description") = {"b"}
    /\ short["user"]["a"] = <<"a", "n", "n">> /\ short["help"]["a"] = "quit"
    /\ short["task"]["a"] = "back" /\ short["tasks"]["a"] = "fix"

\* C25: an AutoAssign call for a value that has a key in the context changes
\* nothing, and after any AutoAssign call a second call for the same value and
\* context changes nothing; no value of a context ever has two keys; and in a
\* run that loaded the registry an earlier run over the same tasks persisted,
\* no call changes the registry.
C25_AutoAssignIdempotent ==
    [][ /\ log'.op = "auto" =>
              LET val == log'.args[2]
                  label == log'.args[3]
              IN  /\ AutoAssign(short', val, label) = short'
                  /\ KeysOf(short, label, val) # {} => short' = short
                  /\ Cardinality(KeysOf(short', label, val)) <= 1
        /\ \A l \in Contexts : \A c, d \in DOMAIN short'[l] :
              short'[l][c] = short'[l][d] => c = d
        /\ (pc = "mapping"
             /\ \E base \in {EmptyShortcuts, Stale} : log.before = generateMappings(base, tasks))
              => short' = short
      ]_vars

\* in a run that loaded a persisted registry, AutoAssign has been called for a
\* project that three tasks share and that has its key from the earlier run;
\* the registry is as it was loaded
C25_Witness ==
    /\ pc = "mapping" /\ log.op = "auto" /\ log.args = <<"", PX, "project">>
    /\ i >= 5
    /\ log.before = generateMappings(EmptyShortcuts, tasks)
    /\ short = log.before
    /\ KeysOf(short, "project", PX) = {"p"}
    /\ KeysOf(short, "project", <<"p">>) = {}

-----------------------------------------------------------------------------
(* Properties of the import and of the process's exits                       *)

\* C26: an import command that fails ends the process in log.Fatal: the
\* command was issued once, the backend is as it was, and from there the
\* process takes no step: no import, no export, no key.  An import that
\* succeeds changes the backend and the process goes on.
C26_FailedImportIsFatal ==
    [][ /\ pc # "fatal"
        /\ pc = "import" =>
              /\ imports' = imports + 1
              /\ backend' = backend => pc' = "fatal"
              /\ pc' = "fatal" => (backend' = backend /\ now' = now /\ tasks' = <<>>)
      ]_vars

\* a first import went through and a second one failed: the process has ended
C26_Witness ==
    /\ pc = "fatal" /\ log.op = "import" /\ log.imports = 1
    /\ imports = 2 /\ backend # InitBackend

\* C27: the persisted registry is written exactly once in every run, at the
\* end: a process that has ended, by leaving main's loop or in log.Fatal, has
\* run short.Persist once, and a process that is still running has not run it.
C27_PersistedOnEveryExit ==
    /\ pc \in {"done", "fatal"} => ConfigWrites = 1
    /\ pc \notin {"done", "fatal"} => ConfigWrites = 0

\* C28: doImport comes to its import command for a task with a uuid only from
\* the guard's read of that uuid in the same call, once the read has returned
\* and its result has been tested: at most one record, and a record found
\* carries the stamp of the task in hand.  Between that read and the import
\* the process issues no import: the count of imports at the import is the
\* count at the read, and the task imported is the task the guard compared.
\* Only a task without a uuid is imported with no read.
C28_ReadBeforeWrite ==
    [][ /\ (pc # "import" /\ pc' = "import") =>
              IF Len(t'.Uuid) > 0
              THEN /\ pc = "guard" /\ t' = t /\ ret' = ret
                   /\ log'.op = "guard" /\ log'.outcome = "import"
                   /\ log'.captured = t.Modified /\ log'.imports = imports
                   /\ log'.n <= 1
                   /\ log'.n = 1 => log'.stored = {t.Modified}
                   /\ imports' = imports /\ backend' = backend
              ELSE pc = "shell" /\ edit'.op = "new"
        /\ (pc = "import" /\ Len(t.Uuid) > 0 /\ imports' # imports) =>
              /\ log.op = "guard" /\ log.outcome = "import"
              /\ log.imports = imports /\ log.captured = t.Modified
              /\ imports' = imports + 1
      ]_vars

\* the second update of a session: the guard has read the record of the task
\* in hand, found the stamp the task carries, and the import is next
C28_Witness ==
    /\ pc = "import" /\ Len(t.Uuid) > 0 /\ imports = 1
    /\ log.op = "guard" /\ log.n = 1 /\ log.outcome = "import"
    /\ log.stored = {t.Modified} /\ log.imports = 1

-----------------------------------------------------------------------------
(* Properties of the guard in a session of this process alone                *)

\* C29: while no other client has written to the backend, every guard read
\* finds the stamp the task in hand carries and none other, and no call of
\* doImport ends in the conflict message; so also for a task that the fix loop
\* wrote earlier in the session and that is edited afterwards.
C29_NoConflictAlone ==
    exts = 0 =>
        /\ pc # "ack"
        /\ log.op = "guard" =>
              (log.outcome # "conflict" /\ log.stored \subseteq {log.captured})

\* C30: when the guard's getTasks(t.Uuid) returns without error and with no
\* task, doImport compares no stamp and goes on to import the task in hand:
\* so it is when the record under the uuid carries a completion stamp or is
\* deleted, which getTasks leaves out, whatever modified stamp the record has.
C30_NoRecordNoComparison ==
    (log.op = "guard" /\ log.n = 0 /\ log.outcome # "fatal") =>
        /\ log.outcome = "import" /\ pc = "import"
        /\ imports = log.imports
        /\ t.Modified = log.captured /\ Len(t.Uuid) > 0
        /\ \A k \in DOMAIN backend :
              backend[k].Uuid = t.Uuid =>
                  (Len(backend[k].Completed) > 0 \/ backend[k].Status = "deleted")

\* another client has completed the task in hand: the guard's fetch returned
\* nothing, the stamps differ, and the import is next
C30_Witness ==
    /\ log.op = "guard" /\ log.n = 0 /\ pc = "import"
    /\ exts = 1 /\ imports = 0
    /\ backend[IndexOf(t.Uuid)].Status = "completed"
    /\ log.stored # {} /\ log.captured \notin log.stored

-----------------------------------------------------------------------------
(* Properties of the fetch's errors                                          *)

\* C31: a fetch in which json.Unmarshal reported an error returns an error,
\* whatever records were decoded, and its caller ends the process in
\* log.Fatal: no listing is shown from such a payload.
C31_DecodeErrorAborts ==
    (log.op = "fetch" /\ log.decode) => (log.outcome # "nil" /\ pc = "fatal")

-----------------------------------------------------------------------------
(* Properties of an edit that requests no change                            *)

\* C32: a content edit whose input requests no change (a description line
\* that is empty once trimmed; an assignee, project, color or tag key that the
\* registry does not bind in the context of the choice) does not call
\* doImport: there is no guard read and no import, the backend stays as it
\* is, and the method returns step 0.  The working set keeps its items (the
\* color and the assignee method have by then filtered the tags of the entry
\* in place); the next thing the review loop does is its refresh of the item.
C32_NoChangeNoWrite ==
    [][ (pc = "editing" /\ edit'.op \in ContentOps /\ edit'.at = now /\ edit'.choice = <<>>
         /\ pc' # "editing") =>
            /\ ~edit'.call /\ pc' = "refresh" /\ move' = 0
            /\ log' = NoLog /\ t' = NoTask
            /\ backend' = backend /\ imports' = imports
            /\ SameButTags(tasks', tasks, i + 1) /\ i' = i
      ]_vars

\* the project prompt was answered with a key that no project is bound to,
\* and after a description prompt answered with a blank line the refresh is
\* about to run without any import having been made
C32_Witness ==
    /\ pc = "refresh" /\ edit.op \in {"project", "description"} /\ edit.choice = <<>>
    /\ ~edit.call /\ move = 0 /\ imports = 0 /\ backend = InitBackend

-----------------------------------------------------------------------------
(* Properties of the working set during a pass                              *)

\* showAndReviewTasks is running: the listing is shown, or one of its loops runs
InPass ==
    pc \in {"listing", "fix", "editing", "guard", "ack", "import", "refresh"} /\ ret # "shell"

\* one of the loops over the working set is at an item
AtItem == pc \in {"editing", "guard", "ack", "import", "refresh"} /\ ret # "shell"

\* C33: while showAndReviewTasks runs, the length of the working set does not
\* change, and while one of its loops is at an item every position keeps its
\* item: an item marked done or deleted is read back into its position, not
\* taken out.  Whenever the editor shows an item, the index lies in
\* [0, length): a jump to a negative or too large integer and "back" at
\* index 0 end the loop and show no item.
C33_PassKeepsShape ==
    [][ /\ (InPass /\ InPass') => Len(tasks') = Len(tasks)
        /\ (AtItem /\ AtItem') =>
              \A k \in DOMAIN tasks : tasks'[k].Uuid = tasks[k].Uuid
        /\ pc' = "editing" => (0 <= i' /\ i' < Len(tasks'))
        /\ (log'.op = "goto" /\ ~JumpInRange(log'.line, tasks)) => pc' # "editing"
        /\ (pc = "refresh" /\ edit.op = "back" /\ i = 0) => pc' # "editing"
      ]_vars

\* the first of two items was deleted and the loop went on to the second;
\* "back" then showed the first again: it is still in the working set, at its
\* position, as the deleted record the backend holds
C33_Witness ==
    /\ pc = "editing" /\ i = 0 /\ Len(tasks) = 2 /\ imports = 1
    /\ tasks[1].Status = "deleted" /\ tasks[1].Uuid = Rec2.Uuid
    /\ tasks[2].Status = "pending"

-----------------------------------------------------------------------------
(* The end of the shell loop *)

\* main with any string given to the flag -f: the text "-1" among them
SeedInit ==
    /\ backend = InitBackend
    /\ now = Now0
    /\ short = EmptyShortcuts
    /\ pc = "start"
    /\ filter \in CmdFilters \cup {Quit}
    /\ tasks = <<>>
    /\ i = 0
    /\ showAll = FALSE
    /\ sortBy = "URGENCY"
    /\ t = NoTask
    /\ move = 0
    /\ ret = "none"
    /\ imports = 0
    /\ exts = 0
    /\ edit = NoEdit
    /\ log = NoLog

SeedSpec == SeedInit /\ [][BrowseNext]_vars

\* C34: main's loop ends, and short.Persist runs, only by a step in which the
\* shell read a key that resolves to "quit" in the context "help": whatever
\* the filter holds, no other key of the shell, and no key of the listing or
\* of the editor, ends the loop.
C34_OnlyQuitEndsLoop == [][pc' = "done" => ShellQuit]_vars

====
